---------------------------- MODULE Spec2Model ----------------------------
(***************************************************************************)
(* Model of the Telegram priority notifier: the persistent state store     *)
(* (src/src/state.py), the trigger engine (src/src/triggers.py), the bot   *)
(* commands (src/src/commands.py) and the orchestrator (src/main.py).      *)
(*                                                                         *)
(* The StateManager object is the record `state`, the JSON state file is   *)
(* the record `file`.  Store methods are operators over a world            *)
(* w = [m |-> <StateManager fields>, f |-> <state file>] so that a method  *)
(* that calls save() is told apart from one that does not.  time.time()    *)
(* is the variable `now`; operators that read the clock take it as `t`.    *)
(***************************************************************************)
EXTENDS Integers, Sequences, FiniteSets, TLC

VARIABLES
    now,          \* time.time(), in seconds
    state,        \* the StateManager instance (in-memory fields)
    file,         \* the persisted state file
    flush,        \* the delivery loop in progress, if any, and its caller
    enq_log,      \* history: alerts appended to snooze_queue since it was last empty
    since_act,    \* history: number of appends since the last activation or emptying
    io,           \* the last direct call of a store method: its name, arguments and result
    sink,         \* the NotificationSink instance and its send_alert calls in progress
    disk,         \* the other files beside the state file: <path>.tmp and <path>.backup.<epoch>
    tasks         \* the handle_message invocations in progress, and history: what they sent

vars == <<now, state, file, flush, enq_log, since_act, io, sink, disk, tasks>>

----------------------------------------------------------------------------
(* Bounds of the model *)

\* DEFAULT_QUEUE_LIMIT is 100 in state.py:18; the model runs the same code with
\* a small capacity so that overflow is reached.
DEFAULT_QUEUE_LIMIT == 2
\* How many appends beyond the capacity are explored between two emptyings.
MaxOverflow == 1
\* How many times the clock advances.
MaxTicks == 2
\* The longest duration text handed to parse_duration.
MaxTextLen == 3
\* Successful sends of the direct path that are followed.
MaxDeliveries == 2

\* One clock advance: the main loop's sleep (main.py:335).
ClockStep == 60
StartTime == 10 * ClockStep
MaxNow == StartTime + MaxTicks * ClockStep

----------------------------------------------------------------------------
(* Python values *)

None == <<>>
Some(v) == <<v>>
\* Truthiness of an Optional[float]: None and 0 are falsy.
Truthy(opt) == opt # None /\ opt[1] # 0

EmptyDict == [k \in {} |-> 0]
Put(d, k, v) == [x \in (DOMAIN d) \cup {k} |-> IF x = k THEN v ELSE d[x]]
Del(d, k) == [x \in (DOMAIN d) \ {k} |-> d[x]]

Range(s) == {s[i] : i \in DOMAIN s}
\* The last n elements of a sequence (all of it when it is shorter).
LastN(s, n) == IF Len(s) <= n THEN s ELSE SubSeq(s, Len(s) - n + 1, Len(s))

\* str(int) and int(str) over sequences of one-character strings.
DigitChars == <<"0", "1", "2", "3", "4", "5", "6", "7", "8", "9">>
RECURSIVE NatStr(_)
NatStr(n) == IF n < 10 THEN <<DigitChars[n + 1]>>
             ELSE NatStr(n \div 10) \o <<DigitChars[(n % 10) + 1]>>
IntStr(n) == IF n < 0 THEN <<"-">> \o NatStr(-n) ELSE NatStr(n)
DigitVal(c) == CHOOSE d \in 0..9 : DigitChars[d + 1] = c
RECURSIVE StrNat(_)
StrNat(s) == IF s = <<>> THEN 0
             ELSE 10 * StrNat(SubSeq(s, 1, Len(s) - 1)) + DigitVal(s[Len(s)])
StrInt(s) == IF s # <<>> /\ s[1] = "-" THEN -StrNat(Tail(s)) ELSE StrNat(s)

----------------------------------------------------------------------------
(* src/src/state.py: StateManager *)

queue_limit == DEFAULT_QUEUE_LIMIT

\* The fields set by __init__ / _reset_state at time t.
DefaultState(t) ==
    [ processed_messages |-> EmptyDict,
      last_cleanup       |-> t,
      priority_mode      |-> "disabled",
      priority_whitelist |-> EmptyDict,
      priority_blacklist |-> EmptyDict,
      snooze_active      |-> FALSE,
      snooze_until       |-> None,
      snooze_behavior    |-> "drop",
      snooze_queue       |-> <<>>,
      timezone_offset    |-> 0 ]

\* A faulty variant, for C20: the two ids are joined without a separator.
_make_key_joined(chat_id, message_id) == IntStr(chat_id) \o IntStr(message_id)

_make_key(chat_id, message_id) == IntStr(chat_id) \o <<":">> \o IntStr(message_id)

is_processed(m, chat_id, message_id) ==
    _make_key(chat_id, message_id) \in DOMAIN m.processed_messages

\* The JSON object save() writes: contact ids become string keys.
StrKeys(d) == [s \in {IntStr(k) : k \in DOMAIN d} |-> d[StrInt(s)]]
IntKeys(d) == [k \in {StrInt(s) : s \in DOMAIN d} |-> d[IntStr(k)]]

Snapshot(m) ==
    [ processed_messages |-> m.processed_messages,
      last_cleanup       |-> m.last_cleanup,
      priority_contacts  |-> [ mode      |-> m.priority_mode,
                               whitelist |-> StrKeys(m.priority_whitelist),
                               blacklist |-> StrKeys(m.priority_blacklist) ],
      snooze             |-> [ active   |-> m.snooze_active,
                               until    |-> m.snooze_until,
                               behavior |-> m.snooze_behavior,
                               queue    |-> m.snooze_queue ],
      timezone_offset    |-> m.timezone_offset ]

save(w) == [w EXCEPT !.f = [kind |-> "json", data |-> Snapshot(w.m)]]

\* What a file holds: nothing ("missing"), a snapshot written by save()
\* ("json"), text json.load() cannot decode ("corrupt": garbage, an empty or a
\* truncated file), or JSON that decodes but makes load() fail with another
\* exception ("invalid": a contact key that is not an integer, a top-level list).
NoFile == [kind |-> "missing"]
\* load() ends in one of its two except clauses.
LoadFails(f) == f.kind \in {"corrupt", "invalid"}

\* The other files of the directory: no temporary file, no backup.
NoOtherFiles == [tmp |-> NoFile, backup |-> EmptyDict]

\* The body of load()'s try block over the decoded data, at time t.
load_data(data, t) ==
    LET active == data.snooze.active
        until == data.snooze.until
    IN [ processed_messages |-> data.processed_messages,
         last_cleanup       |-> data.last_cleanup,
         priority_mode      |-> data.priority_contacts.mode,
         priority_whitelist |-> IntKeys(data.priority_contacts.whitelist),
         priority_blacklist |-> IntKeys(data.priority_contacts.blacklist),
         snooze_active      |-> IF active /\ Truthy(until) /\ t > until[1]
                                THEN FALSE ELSE active,
         snooze_until       |-> until,
         snooze_behavior    |-> data.snooze.behavior,
         snooze_queue       |-> data.snooze.queue,
         timezone_offset    |-> data.timezone_offset ]

\* A faulty variant, for C28: the except clauses of load() do not reset the
\* fields, so what was assigned before the failure stays.
load_without_reset(f, t) ==
    IF f.kind = "missing" \/ f.kind = "corrupt" THEN DefaultState(t)
    ELSE IF f.kind = "invalid"
    THEN [DefaultState(t) EXCEPT !.processed_messages = f.data.processed_messages,
                                 !.last_cleanup = f.data.last_cleanup,
                                 !.priority_mode = f.data.priority_contacts.mode]
    ELSE load_data(f.data, t)

\* load() at time t over the fields __init__ has just set.
load(f, t) ==
    IF f.kind = "missing" THEN DefaultState(t)
    ELSE IF LoadFails(f) THEN DefaultState(t)
    ELSE load_data(f.data, t)

\* What load() does to the files: an undecodable state file is renamed to
\* <path>.backup.<int(time.time())>, unless os.rename fails (`renamed` false).
backup_corrupted(f, d, t, renamed) ==
    IF f.kind = "corrupt" /\ renamed
    THEN [f |-> NoFile, d |-> [d EXCEPT !.backup = Put(@, t, f)]]
    ELSE [f |-> f, d |-> d]

\* save() step by step.  open(temp_file, 'w') creates or truncates <path>.tmp.
\* A faulty variant, for C30: the state file itself is opened for writing.
save_open_in_place(f, d) == [f |-> [kind |-> "corrupt", data |-> [text |-> "empty"]], d |-> d]

save_open(f, d) == [f |-> f, d |-> [d EXCEPT !.tmp = [kind |-> "corrupt", data |-> [text |-> "empty"]]]]

\* json.dump has written a part of the text.
save_dump_part(f, d) ==
    [f |-> f, d |-> [d EXCEPT !.tmp = [kind |-> "corrupt", data |-> [text |-> "truncated"]]]]

\* json.dump has written all of it and the with block has closed the file.
save_dump(m, f, d) ==
    [f |-> f, d |-> [d EXCEPT !.tmp = [kind |-> "json", data |-> Snapshot(m)]]]

\* os.rename(temp_file, self.state_file)
save_rename(f, d) == [f |-> d.tmp, d |-> [d EXCEPT !.tmp = NoFile]]

\* A faulty variant, for C19: the record is added but not saved.
mark_processed_unsaved(w, chat_id, message_id, trigger_type, t) ==
    [w EXCEPT !.m.processed_messages =
         Put(@, _make_key(chat_id, message_id),
             [timestamp |-> t, trigger_type |-> trigger_type])]

\* A faulty variant, for C1: the save happens but no record is added.
mark_processed_unrecorded(w, chat_id, message_id, trigger_type, t) == save(w)

mark_processed(w, chat_id, message_id, trigger_type, t) ==
    save([w EXCEPT !.m.processed_messages =
             Put(@, _make_key(chat_id, message_id),
                 [timestamp |-> t, trigger_type |-> trigger_type])])

CleanupSeconds == 24 * 60 * 60
RetentionDays == 30

should_cleanup(m, t) == (t - m.last_cleanup) > CleanupSeconds

cleanup_old_entries(w, days, t) ==
    LET cutoff_time == t - (days * 24 * 60 * 60)
        kept == {k \in DOMAIN w.m.processed_messages :
                    w.m.processed_messages[k].timestamp > cutoff_time}
        removed_count == Cardinality(DOMAIN w.m.processed_messages) - Cardinality(kept)
        w1 == [w EXCEPT !.m.processed_messages = [k \in kept |-> @[k]]]
    IN IF removed_count > 0
       THEN save([w1 EXCEPT !.m.last_cleanup = t])
       ELSE w1


\* ---- priority contacts ----

\* A faulty variant, for C16: switching the mode empties the inactive list.
set_priority_mode_clearing(w, mode) ==
    [ w      |-> save([w EXCEPT !.m.priority_mode = mode,
                                !.m.priority_whitelist =
                                    IF mode = "blacklist" THEN EmptyDict ELSE @,
                                !.m.priority_blacklist =
                                    IF mode = "whitelist" THEN EmptyDict ELSE @]),
      raised |-> FALSE,
      ret    |-> <<>> ]

\* A faulty variant, for C17: the advisory is given for any list mode.
set_priority_mode_warning(w, mode) ==
    LET old_mode == w.m.priority_mode
    IN IF mode \notin {"disabled", "whitelist", "blacklist"}
       THEN [w |-> w, raised |-> TRUE, ret |-> <<>>]
       ELSE [ w      |-> save([w EXCEPT !.m.priority_mode = mode]),
              raised |-> FALSE,
              ret    |-> IF old_mode \in {"whitelist", "blacklist"}
                            /\ mode \in {"whitelist", "blacklist"}
                         THEN <<"Switched from", old_mode, "to", mode>>
                         ELSE <<>> ]

\* raised: ValueError.  ret: the warning, <<>> being the empty string.
set_priority_mode(w, mode) ==
    LET old_mode == w.m.priority_mode
    IN IF mode \notin {"disabled", "whitelist", "blacklist"}
       THEN [w |-> w, raised |-> TRUE, ret |-> <<>>]
       ELSE [ w      |-> save([w EXCEPT !.m.priority_mode = mode]),
              raised |-> FALSE,
              ret    |-> IF old_mode \in {"whitelist", "blacklist"}
                            /\ mode \in {"whitelist", "blacklist"}
                            /\ old_mode # mode
                         THEN <<"Switched from", old_mode, "to", mode>>
                         ELSE <<>> ]

\* A faulty variant, for C18: adding a listed contact replaces its name.
add_priority_contact_overwrite(w, contact_id, display_name) ==
    IF contact_id \in DOMAIN w.m.priority_whitelist
    THEN [w |-> save([w EXCEPT !.m.priority_whitelist = Put(@, contact_id, display_name)]),
          ret |-> FALSE]
    ELSE [w |-> save([w EXCEPT !.m.priority_whitelist = Put(@, contact_id, display_name)]),
          ret |-> TRUE]

add_priority_contact(w, contact_id, display_name) ==
    IF contact_id \in DOMAIN w.m.priority_whitelist
    THEN [w |-> w, ret |-> FALSE]
    ELSE [w |-> save([w EXCEPT !.m.priority_whitelist = Put(@, contact_id, display_name)]),
          ret |-> TRUE]

remove_priority_contact(w, contact_id) ==
    IF contact_id \notin DOMAIN w.m.priority_whitelist
    THEN [w |-> w, ret |-> FALSE]
    ELSE [w |-> save([w EXCEPT !.m.priority_whitelist = Del(@, contact_id)]),
          ret |-> TRUE]

add_muted_contact(w, contact_id, display_name) ==
    IF contact_id \in DOMAIN w.m.priority_blacklist
    THEN [w |-> w, ret |-> FALSE]
    ELSE [w |-> save([w EXCEPT !.m.priority_blacklist = Put(@, contact_id, display_name)]),
          ret |-> TRUE]

remove_muted_contact(w, contact_id) ==
    IF contact_id \notin DOMAIN w.m.priority_blacklist
    THEN [w |-> w, ret |-> FALSE]
    ELSE [w |-> save([w EXCEPT !.m.priority_blacklist = Del(@, contact_id)]),
          ret |-> TRUE]

\* A faulty variant, for C15: the whitelist is asked about the sender only.
should_process_message_sender_only(m, sender_id, chat_id) ==
    IF m.priority_mode = "disabled" THEN TRUE
    ELSE IF m.priority_mode = "whitelist"
    THEN sender_id \in DOMAIN m.priority_whitelist
    ELSE IF m.priority_mode = "blacklist"
    THEN sender_id \notin DOMAIN m.priority_blacklist /\ chat_id \notin DOMAIN m.priority_blacklist
    ELSE TRUE

should_process_message(m, sender_id, chat_id) ==
    IF m.priority_mode = "disabled" THEN TRUE
    ELSE IF m.priority_mode = "whitelist"
    THEN sender_id \in DOMAIN m.priority_whitelist \/ chat_id \in DOMAIN m.priority_whitelist
    ELSE IF m.priority_mode = "blacklist"
    THEN sender_id \notin DOMAIN m.priority_blacklist /\ chat_id \notin DOMAIN m.priority_blacklist
    ELSE TRUE

\* ---- snooze ----

Whitespace == {" ", "\t", "\n"}
Digits == Range(DigitChars)
LowerChar(c) == IF c = "M" THEN "m" ELSE IF c = "H" THEN "h" ELSE IF c = "D" THEN "d" ELSE c
LowerStr(s) == [i \in DOMAIN s |-> LowerChar(s[i])]
RECURSIVE LStrip(_)
LStrip(s) == IF s # <<>> /\ s[1] \in Whitespace THEN LStrip(Tail(s)) ELSE s
RECURSIVE RStrip(_)
RStrip(s) == IF s # <<>> /\ s[Len(s)] \in Whitespace
             THEN RStrip(SubSeq(s, 1, Len(s) - 1)) ELSE s
Strip(s) == RStrip(LStrip(s))

\* A faulty variant, for C14: the number may be missing.
parse_duration_any_number(duration_str) ==
    LET x == Strip(LowerStr(duration_str))
        n == Len(x)
    IN IF n >= 1 /\ x[n] \in {"m", "h", "d"} /\ \A i \in 1..(n - 1) : x[i] \in Digits
       THEN LET value == StrNat(SubSeq(x, 1, n - 1))
                unit == x[n]
            IN Some(IF unit = "m" THEN value * 60
                    ELSE IF unit = "h" THEN value * 3600
                    ELSE value * 86400)
       ELSE None

\* re.match(r'^(\d+)([mhd])$', duration_str.lower().strip()); None is no match.
parse_duration(duration_str) ==
    LET x == Strip(LowerStr(duration_str))
        n == Len(x)
    IN IF n >= 2 /\ x[n] \in {"m", "h", "d"} /\ \A i \in 1..(n - 1) : x[i] \in Digits
       THEN LET value == StrNat(SubSeq(x, 1, n - 1))
                unit == x[n]
            IN Some(IF unit = "m" THEN value * 60
                    ELSE IF unit = "h" THEN value * 3600
                    ELSE value * 86400)
       ELSE None

\* A faulty variant, for C13: the window ends when it starts.
activate_snooze_no_duration(w, duration_seconds, queue_mode, t) ==
    save([w EXCEPT !.m.snooze_active = TRUE,
                   !.m.snooze_until = Some(t),
                   !.m.snooze_behavior = IF queue_mode THEN "queue" ELSE "drop"])

activate_snooze(w, duration_seconds, queue_mode, t) ==
    save([w EXCEPT !.m.snooze_active = TRUE,
                   !.m.snooze_until = Some(t + duration_seconds),
                   !.m.snooze_behavior = IF queue_mode THEN "queue" ELSE "drop"])

\* A faulty variant, for C6: the oldest queued alert is not returned.
deactivate_snooze_partial(w) ==
    [ w   |-> save([w EXCEPT !.m.snooze_active = FALSE,
                             !.m.snooze_until = None,
                             !.m.snooze_queue = <<>>]),
      ret |-> IF w.m.snooze_queue = <<>> THEN <<>> ELSE Tail(w.m.snooze_queue) ]

deactivate_snooze(w) ==
    [ w   |-> save([w EXCEPT !.m.snooze_active = FALSE,
                             !.m.snooze_until = None,
                             !.m.snooze_queue = <<>>]),
      ret |-> w.m.snooze_queue ]

\* A faulty variant, for C7: the window already counts as expired at `until`.
check_snooze_expired_inclusive(w, t) ==
    IF w.m.snooze_active /\ Truthy(w.m.snooze_until) /\ t >= w.m.snooze_until[1]
    THEN [w |-> [w EXCEPT !.m.snooze_active = FALSE], ret |-> TRUE]
    ELSE [w |-> w, ret |-> FALSE]

check_snooze_expired(w, t) ==
    IF w.m.snooze_active /\ Truthy(w.m.snooze_until) /\ t > w.m.snooze_until[1]
    THEN [w |-> [w EXCEPT !.m.snooze_active = FALSE], ret |-> TRUE]
    ELSE [w |-> w, ret |-> FALSE]

is_snoozed(w, t) ==
    LET c == check_snooze_expired(w, t)
    IN [w |-> c.w, ret |-> c.w.m.snooze_active]

snooze_remaining_seconds(m, t) ==
    IF ~m.snooze_active \/ ~Truthy(m.snooze_until) THEN None
    ELSE Some(IF m.snooze_until[1] - t > 0 THEN m.snooze_until[1] - t ELSE 0)

\* Faulty variants, for C4 and C5: no eviction at capacity, and eviction of
\* the newest entry instead of the oldest.
queue_alert_unbounded(w, alert_data) ==
    IF w.m.snooze_behavior # "queue" THEN [w |-> w, ret |-> FALSE]
    ELSE [w |-> save([w EXCEPT !.m.snooze_queue = Append(@, alert_data)]),
          ret |-> TRUE]

queue_alert_evict_newest(w, alert_data) ==
    IF w.m.snooze_behavior # "queue" THEN [w |-> w, ret |-> FALSE]
    ELSE LET q == IF Len(w.m.snooze_queue) >= queue_limit
                  THEN SubSeq(w.m.snooze_queue, 1, Len(w.m.snooze_queue) - 1)
                  ELSE w.m.snooze_queue
         IN [w |-> save([w EXCEPT !.m.snooze_queue = Append(q, alert_data)]),
             ret |-> TRUE]

queue_alert(w, alert_data) ==
    IF w.m.snooze_behavior # "queue" THEN [w |-> w, ret |-> FALSE]
    ELSE LET q == IF Len(w.m.snooze_queue) >= queue_limit
                  THEN Tail(w.m.snooze_queue) ELSE w.m.snooze_queue
         IN [w |-> save([w EXCEPT !.m.snooze_queue = Append(q, alert_data)]),
             ret |-> TRUE]

----------------------------------------------------------------------------
(* src/src/notifier.py: NotificationSink *)
(* Time is the event loop's clock in whole seconds.  A send_alert call is a  *)
(* coroutine: it is suspended in _rate_limit's sleep, in the POST (from its   *)
(* dispatch to its response) and in the sleep before a retry.                *)

min_alert_interval == 1
DefaultMaxRetries == 3
DefaultRetryAfter == 5

\* The code that can have a send_alert call in progress at the same time: a
\* NewMessage handler and the main loop's delivery of the queue.
Callers == {"handler", "loop"}

NoSend == [pc |-> "idle", attempt |-> 0, max_retries |-> 0, wake |-> 0,
           floor |-> 0, posts |-> 0, ret |-> None, raised |-> FALSE]

\* The fields set by __init__, and the calls in progress (none).
NotificationSink == [last_alert_time |-> 0, calls |-> [c \in Callers |-> NoSend]]

\* What one POST can come to: a response (its status, whether its body
\* decodes, and parameters.retry_after when it has one), an
\* aiohttp.ClientError, or any other exception.
Response(status, body, retry_after) ==
    [kind |-> "response", status |-> status, body |-> body, retry_after |-> retry_after]
Raised(kind) == [kind |-> kind, status |-> 0, body |-> "none", retry_after |-> None]
Ok200 == Response(200, "json", None)
PostOutcomes ==
    { Ok200,
      Response(429, "json", None), Response(429, "json", Some(2)),
      Response(429, "undecodable", None),
      Response(500, "json", None), Response(500, "undecodable", None),
      Raised("ClientError"), Raised("Exception") }

\* A faulty variant, for C25: the sleep is the time elapsed, not the time
\* remaining.
_rate_limit_elapsed(s, t) ==
    LET time_since_last == t - s.last_alert_time
    IN IF time_since_last < min_alert_interval THEN time_since_last ELSE 0

\* _rate_limit at time t: how long it sleeps.
_rate_limit(s, t) ==
    LET time_since_last == t - s.last_alert_time
    IN IF time_since_last < min_alert_interval
       THEN min_alert_interval - time_since_last ELSE 0

\* The call dispatches the POST of its current attempt.
dispatch(call) == [call EXCEPT !.pc = "await", !.posts = @ + 1]

\* `return False`, `return True`
finish(call, ret) == [call EXCEPT !.pc = "done", !.wake = 0, !.ret = Some(ret)]

\* The top of `for attempt in range(max_retries)`.
loop_top(call) ==
    IF call.attempt < call.max_retries THEN dispatch(call) ELSE finish(call, FALSE)

\* send_alert(formatted_message, max_retries) is called at time t: up to its
\* first suspension.
send_alert_call(s, max_retries, t) ==
    LET wait_time == _rate_limit(s, t)
        call == [NoSend EXCEPT !.max_retries = max_retries,
                               !.floor = s.last_alert_time]
    IN IF wait_time > 0
       THEN [call EXCEPT !.pc = "rate_limit", !.wake = t + wait_time]
       ELSE loop_top(call)

\* asyncio.sleep returns: after _rate_limit the loop starts, after a retry's
\* sleep the next attempt starts.
wake_up(call) ==
    IF call.pc = "rate_limit" THEN loop_top(call)
    ELSE loop_top([call EXCEPT !.attempt = @ + 1])

\* A faulty variant, for C23: the first failure ends the call.
retry_or_fail_no_retry(call, wait_time, t) == finish(call, FALSE)

\* The `if attempt < max_retries - 1: sleep ... else: return False` of each
\* failure branch.
retry_or_fail(call, wait_time, t) ==
    IF call.attempt < call.max_retries - 1
    THEN [call EXCEPT !.pc = "sleep", !.wake = t + wait_time]
    ELSE finish(call, FALSE)

Pow2(n) == 2 ^ n

\* A faulty variant, for C27: there is no `except Exception` clause, so an
\* exception that is not a ClientError leaves send_alert.
on_outcome_propagating(s, call, o, t) ==
    IF o.kind = "response" /\ o.status = 200
    THEN [s |-> [s EXCEPT !.last_alert_time = t], call |-> finish(call, TRUE)]
    ELSE IF o.kind = "response" /\ o.body = "json" /\ o.status = 429
    THEN LET retry_after == IF o.retry_after = None THEN DefaultRetryAfter
                            ELSE o.retry_after[1]
         IN [s |-> s, call |-> retry_or_fail(call, retry_after, t)]
    ELSE IF o.kind = "Exception"
    THEN [s |-> s, call |-> [call EXCEPT !.pc = "done", !.wake = 0, !.raised = TRUE]]
    ELSE [s |-> s, call |-> retry_or_fail(call, Pow2(call.attempt), t)]

\* The POST of the current attempt comes to outcome o at time t.
on_outcome(s, call, o, t) ==
    IF o.kind = "response" /\ o.status = 200
    THEN [s |-> [s EXCEPT !.last_alert_time = t], call |-> finish(call, TRUE)]
    ELSE IF o.kind = "response" /\ o.body = "json" /\ o.status = 429
    THEN LET retry_after == IF o.retry_after = None THEN DefaultRetryAfter
                            ELSE o.retry_after[1]
         IN [s |-> s, call |-> retry_or_fail(call, retry_after, t)]
    ELSE \* another status, `await response.json()` raising, ClientError, Exception
         [s |-> s, call |-> retry_or_fail(call, Pow2(call.attempt), t)]

----------------------------------------------------------------------------
(* src/src/triggers.py: TriggerEngine *)

\* The monitored account (main.py:156, me.id).
user_id == 1

\* An event is the view of a Telethon NewMessage event the engine reads:
\*   action: message.action is set (service message); sender_bot: sender.bot;
\*   chat_is_user: isinstance(chat, User); text_mention: "@username" in text;
\*   entity_mention: an entity carries user_id; is_reply: message.is_reply;
\*   reply_lookup: what get_reply_message() yields ("me", "other", "none", "error").
_is_mentioned(e) == e.text_mention \/ e.entity_mention

\* A faulty variant, for C32: a reply whose original cannot be fetched counts
\* as a reply to the user.
_is_reply_to_user_unresolved(e) ==
    IF ~e.is_reply THEN FALSE
    ELSE e.reply_lookup # "other"

_is_reply_to_user(e) ==
    IF ~e.is_reply THEN FALSE
    ELSE e.reply_lookup = "me"

NoAlert == [should_alert |-> FALSE, trigger_type |-> "None"]
\* A faulty variant, for C31: the mention is looked for before the chat type.
should_alert_mention_first(e) ==
    IF e.action THEN NoAlert
    ELSE IF e.sender_id = user_id THEN NoAlert
    ELSE IF e.sender_bot THEN NoAlert
    ELSE IF _is_mentioned(e) THEN [should_alert |-> TRUE, trigger_type |-> "Mention"]
    ELSE IF e.chat_is_user THEN [should_alert |-> TRUE, trigger_type |-> "DM"]
    ELSE IF _is_reply_to_user(e) THEN [should_alert |-> TRUE, trigger_type |-> "Reply"]
    ELSE NoAlert

should_alert(e) ==
    IF e.action THEN NoAlert
    ELSE IF e.sender_id = user_id THEN NoAlert
    ELSE IF e.sender_bot THEN NoAlert
    ELSE IF e.chat_is_user THEN [should_alert |-> TRUE, trigger_type |-> "DM"]
    ELSE IF _is_mentioned(e) THEN [should_alert |-> TRUE, trigger_type |-> "Mention"]
    ELSE IF _is_reply_to_user(e) THEN [should_alert |-> TRUE, trigger_type |-> "Reply"]
    ELSE NoAlert

----------------------------------------------------------------------------
(* src/main.py: TelegramPriorityNotifier *)

\* AlertFormatter.format_alert: a non-empty body that names the message.
format_alert(e, trigger_type) ==
    [chat_id |-> e.chat_id, message_id |-> e.id, trigger_type |-> trigger_type]

\* The dict handle_message hands to queue_alert.
QueuedAlert(e, trigger_type) ==
    [ message      |-> format_alert(e, trigger_type),
      trigger_type |-> trigger_type,
      chat_id      |-> e.chat_id,
      message_id   |-> e.id ]

\* What one handle_message invocation did: the store after it, the send_alert
\* calls it made, the metrics it recorded, the alert it appended to the queue.
Outcome(w, calls, metrics, enq) ==
    [w |-> w, calls |-> calls, recorded |-> {"messages_received"} \cup metrics, enq |-> enq]

\* Step 1, taken when is_snoozed() is true.
snooze_gate(w, e) ==
    LET sa == should_alert(e)
    IN IF sa.should_alert
       THEN IF w.m.snooze_behavior = "queue"
            THEN LET qa == queue_alert(w, QueuedAlert(e, sa.trigger_type))
                 IN Outcome(qa.w, <<>>, {"snooze_queued"},
                            IF qa.ret THEN <<QueuedAlert(e, sa.trigger_type)>> ELSE <<>>)
            ELSE Outcome(w, <<>>, {"snooze_dropped"}, <<>>)
       ELSE Outcome(w, <<>>, {}, <<>>)

\* A faulty variant, for C2: the message is marked whatever the send returned.
send_and_mark_always(w, e, trigger_type, r, t) ==
    Outcome(mark_processed(w, e.chat_id, e.id, trigger_type, t),
            <<[body |-> format_alert(e, trigger_type), result |-> r]>>,
            {"alerts_sent"}, <<>>)

\* Steps 5 and 6: format, send (result r), mark on success.  A raising send
\* leaves through the handler's except clause.
send_and_mark(w, e, trigger_type, r, t) ==
    LET call == [body |-> format_alert(e, trigger_type), result |-> r]
    IN IF r = "ok"
       THEN Outcome(mark_processed(w, e.chat_id, e.id, trigger_type, t),
                    <<call>>, {"alerts_sent"}, <<>>)
       ELSE Outcome(w, <<call>>, {}, <<>>)

\* A faulty variant, for C35: the contact filter is applied after the dedup
\* check instead of first.
alert_gates_filter_last(w, e, r, t) ==
    LET sa == should_alert(e)
    IN IF ~sa.should_alert
       THEN IF ~should_process_message(w.m, e.sender_id, e.chat_id)
            THEN Outcome(w, <<>>, {"priority_filtered"}, <<>>)
            ELSE Outcome(w, <<>>, {}, <<>>)
       ELSE IF is_processed(w.m, e.chat_id, e.id)
       THEN Outcome(w, <<>>, {"dedup_hits"}, <<>>)
       ELSE IF ~should_process_message(w.m, e.sender_id, e.chat_id)
       THEN Outcome(w, <<>>, {"priority_filtered"}, <<>>)
       ELSE send_and_mark(w, e, sa.trigger_type, r, t)

\* Steps 2 to 6, taken when is_snoozed() is false.
alert_gates(w, e, r, t) ==
    IF ~should_process_message(w.m, e.sender_id, e.chat_id)
    THEN Outcome(w, <<>>, {"priority_filtered"}, <<>>)
    ELSE LET sa == should_alert(e)
         IN IF ~sa.should_alert THEN Outcome(w, <<>>, {}, <<>>)
            ELSE IF is_processed(w.m, e.chat_id, e.id)
            THEN Outcome(w, <<>>, {"dedup_hits"}, <<>>)
            ELSE send_and_mark(w, e, sa.trigger_type, r, t)

\* A faulty variant, for C3: the snooze gate is skipped.
handle_message_unsnoozed(w, e, r, t) == alert_gates(is_snoozed(w, t).w, e, r, t)

handle_message(w, e, r, t) ==
    LET s == is_snoozed(w, t)
    IN IF s.ret THEN snooze_gate(s.w, e) ELSE alert_gates(s.w, e, r, t)

\* handle_message with its try/except (main.py:254, 312-313).  fault names the
\* call that raises in this invocation, if it is reached: "is_snoozed" (state
\* access), "should_alert" (classification, get_sender/get_chat), or
\* "format_alert" (rendering).  caught: the except clause ran and logged;
\* raised: the exception left the handler.
Faults == {"none", "is_snoozed", "should_alert", "format_alert"}
Returned(o) == [out |-> o, caught |-> FALSE, raised |-> FALSE]
Caught(w) == [out |-> Outcome(w, <<>>, {}, <<>>), caught |-> TRUE, raised |-> FALSE]
Uncaught(w) == [out |-> Outcome(w, <<>>, {}, <<>>), caught |-> FALSE, raised |-> TRUE]

\* A faulty variant, for C33: the handler has no try/except.
handle_message_uncaught(w, e, r, t, fault) ==
    IF fault = "is_snoozed" THEN Uncaught(w)
    ELSE LET s == is_snoozed(w, t)
         IN IF s.ret
            THEN IF fault = "should_alert" THEN Uncaught(s.w)
                 ELSE IF /\ fault = "format_alert"
                         /\ should_alert(e).should_alert
                         /\ s.w.m.snooze_behavior = "queue"
                 THEN Uncaught(s.w)
                 ELSE Returned(snooze_gate(s.w, e))
            ELSE IF ~should_process_message(s.w.m, e.sender_id, e.chat_id)
            THEN Returned(alert_gates(s.w, e, r, t))
            ELSE IF fault = "should_alert" THEN Uncaught(s.w)
            ELSE IF /\ fault = "format_alert"
                    /\ should_alert(e).should_alert
                    /\ ~is_processed(s.w.m, e.chat_id, e.id)
            THEN Uncaught(s.w)
            ELSE Returned(alert_gates(s.w, e, r, t))

handle_message_try(w, e, r, t, fault) ==
    IF fault = "is_snoozed" THEN Caught(w)
    ELSE LET s == is_snoozed(w, t)
         IN IF s.ret
            THEN IF fault = "should_alert" THEN Caught(s.w)
                 ELSE IF /\ fault = "format_alert"
                         /\ should_alert(e).should_alert
                         /\ s.w.m.snooze_behavior = "queue"
                 THEN Caught(s.w)
                 ELSE Returned(snooze_gate(s.w, e))
            ELSE IF ~should_process_message(s.w.m, e.sender_id, e.chat_id)
            THEN Returned(alert_gates(s.w, e, r, t))
            ELSE IF fault = "should_alert" THEN Caught(s.w)
            ELSE IF /\ fault = "format_alert"
                    /\ should_alert(e).should_alert
                    /\ ~is_processed(s.w.m, e.chat_id, e.id)
            THEN Caught(s.w)
            ELSE Returned(alert_gates(s.w, e, r, t))

\* _deliver_snooze_queue up to its loop: the queue is copied, emptied and saved.
_deliver_snooze_queue(w) ==
    IF w.m.snooze_queue # <<>>
    THEN [w |-> save([w EXCEPT !.m.snooze_queue = <<>>]), queued |-> w.m.snooze_queue]
    ELSE [w |-> w, queued |-> <<>>]

\* _check_startup_snooze up to its loop.
_check_startup_snooze(w) ==
    IF w.m.snooze_queue # <<>> /\ ~w.m.snooze_active
    THEN [w |-> save([w EXCEPT !.m.snooze_queue = <<>>]), queued |-> w.m.snooze_queue]
    ELSE [w |-> w, queued |-> <<>>]

\* A delivery loop `for alert in queued` of caller src after i iterations.
\* results is the history of those iterations: the alert handed to send_alert
\* and what the call did.
Idle == [src |-> "none", queued |-> <<>>, i |-> 0, results |-> <<>>]
StartLoop(src, queued) ==
    IF queued = <<>> THEN Idle
    ELSE [src |-> src, queued |-> queued, i |-> 0, results |-> <<>>]
InProgress(fl) == fl.i < Len(fl.queued)

\* A faulty variant of the loop body, for C9: a failed send ends the loop.
deliver_next_abort(fl, r) ==
    IF fl.i + 1 = Len(fl.queued) \/ r # "ok" THEN Idle
    ELSE [fl EXCEPT !.i = @ + 1,
                    !.results = Append(@, [alert |-> fl.queued[fl.i + 1], result |-> r])]

\* One iteration of the loop: whatever send_alert does (r), the loop goes on
\* to the next entry, and ends after the last one.
deliver_next(fl, r) ==
    IF fl.i + 1 = Len(fl.queued) THEN Idle
    ELSE [fl EXCEPT !.i = @ + 1,
                    !.results = Append(@, [alert |-> fl.queued[fl.i + 1], result |-> r])]

\* handle_message as a coroutine.  An invocation is suspended where it awaits:
\* in should_alert (pc "should_alert", or "snoozed_should_alert" in the snooze
\* branch), in format_alert ("format_alert", "snoozed_format_alert") and in
\* send_alert ("send_alert").  Between two awaits it runs without interruption.
NoTask == [pc |-> "done", e |-> <<>>, trigger_type |-> "None"]
Suspended(pc, e, trigger_type) == [pc |-> pc, e |-> <<e>>, trigger_type |-> trigger_type]

\* From the entry to the first await (main.py:255-261, 279-287).
begin(w, e, t) ==
    LET s == is_snoozed(w, t)
    IN IF s.ret THEN [w |-> s.w, task |-> Suspended("snoozed_should_alert", e, "None")]
       ELSE IF ~should_process_message(s.w.m, e.sender_id, e.chat_id)
       THEN [w |-> s.w, task |-> NoTask]
       ELSE [w |-> s.w, task |-> Suspended("should_alert", e, "None")]

\* From the return of an await to the next await or to the end
\* (main.py:262-277, 289-310).  r is what send_alert returned.
resume(w, task, r, t) ==
    LET e == task.e[1]
        sa == should_alert(e)
    IN CASE task.pc = "snoozed_should_alert" ->
              IF sa.should_alert /\ w.m.snooze_behavior = "queue"
              THEN [w |-> w, task |-> Suspended("snoozed_format_alert", e, sa.trigger_type),
                    sent |-> <<>>]
              ELSE [w |-> w, task |-> NoTask, sent |-> <<>>]
         [] task.pc = "snoozed_format_alert" ->
              [w |-> queue_alert(w, QueuedAlert(e, task.trigger_type)).w,
               task |-> NoTask, sent |-> <<>>]
         [] task.pc = "should_alert" ->
              IF ~sa.should_alert \/ is_processed(w.m, e.chat_id, e.id)
              THEN [w |-> w, task |-> NoTask, sent |-> <<>>]
              ELSE [w |-> w, task |-> Suspended("format_alert", e, sa.trigger_type),
                    sent |-> <<>>]
         [] task.pc = "format_alert" ->
              [w |-> w, task |-> Suspended("send_alert", e, task.trigger_type), sent |-> <<>>]
         [] task.pc = "send_alert" ->
              IF r = "ok"
              THEN [w |-> mark_processed(w, e.chat_id, e.id, task.trigger_type, t),
                    task |-> NoTask,
                    sent |-> <<[chat_id |-> e.chat_id, message_id |-> e.id]>>]
              ELSE [w |-> w, task |-> NoTask, sent |-> <<>>]

----------------------------------------------------------------------------
(* src/src/commands.py: CommandHandler.  A response is the kind of text the   *)
(* command returns and what the text names.                                  *)

Answer(kind, about) == [kind |-> kind, about |-> about]

\* What client.get_entity() knows: the handle without its "@", the entity's
\* id and the display name _resolve_entity builds from it.
Directory ==
    [ alice |-> [id |-> 2, display_name |-> "Alice (@alice)"],
      team  |-> [id |-> -5, display_name |-> "Team"] ]

\* identifier[1:] when the identifier starts with "@"
WithoutAt(identifier) ==
    CASE identifier = "@alice" -> "alice"
      [] identifier = "@team" -> "team"
      [] identifier = "@ghost" -> "ghost"
      [] OTHER -> identifier

\* A faulty variant, for C34: a handle that does not resolve yields id 0.
_resolve_entity_zero(identifier) ==
    LET name == WithoutAt(identifier)
    IN IF name \in DOMAIN Directory
       THEN [entity_id |-> Some(Directory[name].id), display_name |-> Directory[name].display_name]
       ELSE [entity_id |-> Some(0), display_name |-> ""]

\* get_entity raises for a handle it does not know; the except clause returns
\* (None, "").
_resolve_entity(identifier) ==
    LET name == WithoutAt(identifier)
    IN IF name \in DOMAIN Directory
       THEN [entity_id |-> Some(Directory[name].id), display_name |-> Directory[name].display_name]
       ELSE [entity_id |-> None, display_name |-> ""]

_handle_priority(w, args) ==
    IF args = <<>> THEN [w |-> w, response |-> Answer("priority_help", "")]
    ELSE IF args[1] = "mode"
    THEN IF Len(args) < 2 THEN [w |-> w, response |-> Answer("current_mode", w.m.priority_mode)]
         ELSE LET mode == IF args[2] = "off" THEN "disabled" ELSE args[2]
              IN IF mode \notin {"disabled", "whitelist", "blacklist"}
                 THEN [w |-> w, response |-> Answer("invalid_mode", "")]
                 ELSE [w |-> set_priority_mode(w, mode).w, response |-> Answer("mode_set", mode)]
    ELSE IF args[1] = "add"
    THEN IF Len(args) < 2 THEN [w |-> w, response |-> Answer("usage", "/priority add")]
         ELSE LET r == _resolve_entity(args[2])
              IN IF r.entity_id = None
                 THEN [w |-> w, response |-> Answer("could_not_resolve", args[2])]
                 ELSE LET a == add_priority_contact(w, r.entity_id[1], r.display_name)
                      IN [w |-> a.w,
                          response |-> Answer(IF a.ret THEN "added" ELSE "already_listed",
                                                 r.display_name)]
    ELSE IF args[1] = "remove"
    THEN IF Len(args) < 2 THEN [w |-> w, response |-> Answer("usage", "/priority remove")]
         ELSE LET r == _resolve_entity(args[2])
              IN IF r.entity_id = None
                 THEN [w |-> w, response |-> Answer("could_not_resolve", args[2])]
                 ELSE LET a == remove_priority_contact(w, r.entity_id[1])
                      IN [w |-> a.w,
                          response |-> Answer(IF a.ret THEN "removed" ELSE "not_listed",
                                                 r.display_name)]
    ELSE IF args[1] = "list" THEN [w |-> w, response |-> Answer("priority_list", "")]
    ELSE [w |-> w, response |-> Answer("priority_help", "")]

_handle_mute(w, args) ==
    IF args = <<>> THEN [w |-> w, response |-> Answer("usage", "/mute")]
    ELSE LET r == _resolve_entity(args[1])
         IN IF r.entity_id = None
            THEN [w |-> w, response |-> Answer("could_not_resolve", args[1])]
            ELSE LET a == add_muted_contact(w, r.entity_id[1], r.display_name)
                 IN [w |-> a.w,
                     response |-> Answer(IF a.ret THEN "muted" ELSE "already_muted",
                                            r.display_name)]

_handle_unmute(w, args) ==
    IF args = <<>> THEN [w |-> w, response |-> Answer("usage", "/unmute")]
    ELSE LET r == _resolve_entity(args[1])
         IN IF r.entity_id = None
            THEN [w |-> w, response |-> Answer("could_not_resolve", args[1])]
            ELSE LET a == remove_muted_contact(w, r.entity_id[1])
                 IN [w |-> a.w,
                     response |-> Answer(IF a.ret THEN "unmuted" ELSE "not_muted",
                                            r.display_name)]

\* The words of /snooze are texts (sequences of characters).
StatusWord == <<"s", "t", "a", "t", "u", "s">>
QueueFlag == <<"-", "-", "q", "u", "e", "u", "e">>

\* _handle_snooze as a function of its arguments: the store after it and the
\* response.
snooze_command(w, args, t) ==
    IF args = <<>> THEN [w |-> w, response |-> Answer("snooze_help", <<>>)]
    ELSE LET arg == LowerStr(args[1])
         IN IF arg = StatusWord THEN [w |-> w, response |-> Answer("snooze_status", <<>>)]
            ELSE IF arg = QueueFlag /\ Len(args) < 2
            THEN [w |-> w, response |-> Answer("usage", QueueFlag)]
            ELSE LET queue_mode == arg = QueueFlag
                     duration_arg == IF queue_mode THEN args[2] ELSE arg
                     seconds == parse_duration(duration_arg)
                 IN IF seconds = None
                    THEN [w |-> w, response |-> Answer("invalid_duration", duration_arg)]
                    ELSE [w |-> activate_snooze(w, seconds[1], queue_mode, t),
                          response |-> Answer("snooze_activated", <<>>)]

----------------------------------------------------------------------------
(* The inputs explored *)

SendResults == {"ok", "fail", "raise"}

Msg(chat_id, id, sender_id, chat_is_user, text_mention) ==
    [ chat_id |-> chat_id, id |-> id, sender_id |-> sender_id, action |-> FALSE,
      sender_bot |-> FALSE, chat_is_user |-> chat_is_user,
      text_mention |-> text_mention, entity_mention |-> FALSE,
      is_reply |-> FALSE, reply_lookup |-> "none" ]

\* A direct message, a mention in a group, and a plain group message.
Events ==
    { Msg(2, 1, 2, TRUE, FALSE),
      Msg(-5, 1, 3, FALSE, TRUE),
      Msg(-5, 2, 3, FALSE, FALSE) }

\* The modes /priority mode sets: the filter off, and a whitelist (which,
\* with no contact listed, lets no sender through).
FilterModes == {"disabled", "whitelist"}

\* The duration texts of /snooze.
DurationTexts == {<<"1", "m">>, <<"5", "x">>}

----------------------------------------------------------------------------
(* The state machine.  Handlers run one at a time (the event loop is single   *)
(* threaded and the model takes no other handler while a delivery loop is    *)
(* suspended in send_alert); the process can stop at any point.              *)

World == [m |-> state, f |-> file]

\* No store method was called directly (the orchestrator's handlers call them).
NoCall == [fn |-> "none", args |-> <<>>, ret |-> <<>>]

\* The handle_message invocations that can be in progress at once, and the
\* successful sends of the direct path so far.
TaskIds == {1, 2}
NoTasks == [run |-> [k \in TaskIds |-> NoTask], sent |-> <<>>]

\* No delivery loop is running: startup has completed and the loop is free.
Running == ~InProgress(flush)

\* The history of appends after a step that leaves the queue q.
NextLog(q, enq) == IF q = <<>> THEN <<>> ELSE enq_log \o enq
NextSince(q, enq, activated) ==
    IF q = <<>> \/ activated THEN 0 ELSE since_act + Len(enq)

Init ==
    /\ now = StartTime
    /\ state = DefaultState(StartTime)
    /\ file = NoFile
    /\ flush = Idle
    /\ enq_log = <<>>
    /\ since_act = 0
    /\ io = NoCall
    /\ sink = NotificationSink
    /\ disk = NoOtherFiles
    /\ tasks = NoTasks

Advance ==
    /\ Running
    /\ now < MaxNow
    /\ now' = now + ClockStep
    /\ UNCHANGED <<state, file, flush, enq_log, since_act, io, sink, disk, tasks>>

\* The NewMessage handler: one handle_message(event), r being what its
\* send_alert call returns (taken as "ok" when it makes none).
HandleMessage(e, r) ==
    /\ Running
    /\ handle_message(World, e, "ok", now).calls = <<>> => r = "ok"
    /\ LET res == handle_message(World, e, r, now)
       IN /\ state' = res.w.m
          /\ file' = res.w.f
          /\ enq_log' = NextLog(res.w.m.snooze_queue, res.enq)
          /\ since_act' = NextSince(res.w.m.snooze_queue, res.enq, FALSE)
          /\ Len(enq_log') <= queue_limit + MaxOverflow
    /\ UNCHANGED <<now, flush, io, sink, disk, tasks>>

\* One iteration of run()'s loop up to the delivery loop of
\* _deliver_snooze_queue (the heartbeat only logs).
Tick ==
    /\ Running
    /\ LET w1 == IF should_cleanup(state, now)
                 THEN cleanup_old_entries(World, RetentionDays, now) ELSE World
           c == check_snooze_expired(w1, now)
           d == IF c.ret THEN _deliver_snooze_queue(c.w) ELSE [w |-> c.w, queued |-> <<>>]
       IN /\ state' = d.w.m
          /\ file' = d.w.f
          /\ flush' = StartLoop("tick", d.queued)
          /\ enq_log' = NextLog(d.w.m.snooze_queue, <<>>)
          /\ since_act' = NextSince(d.w.m.snooze_queue, <<>>, FALSE)
    /\ UNCHANGED <<now, io, sink, disk, tasks>>

\* One iteration of the delivery loop (of the tick, /unsnooze or startup).
FlushStep(r) ==
    /\ InProgress(flush)
    /\ flush' = deliver_next(flush, r)
    /\ UNCHANGED <<now, state, file, enq_log, since_act, io, sink, disk, tasks>>

\* /snooze [--queue] <duration>
_handle_snooze(queue_mode, duration_arg) ==
    /\ Running
    /\ LET seconds == parse_duration(duration_arg)
       IN IF seconds = None
          THEN UNCHANGED <<state, file, since_act>>
          ELSE /\ LET w == activate_snooze(World, seconds[1], queue_mode, now)
                  IN state' = w.m /\ file' = w.f
               /\ since_act' = 0
    /\ UNCHANGED <<now, flush, enq_log, io, sink, disk, tasks>>

\* /unsnooze up to its delivery loop
_handle_unsnooze ==
    /\ Running
    /\ IF ~state.snooze_active
       THEN UNCHANGED <<state, file, flush, enq_log, since_act>>
       ELSE LET d == deactivate_snooze(World)
            IN /\ state' = d.w.m
               /\ file' = d.w.f
               /\ flush' = StartLoop("unsnooze", d.ret)
               /\ enq_log' = NextLog(d.w.m.snooze_queue, <<>>)
               /\ since_act' = NextSince(d.w.m.snooze_queue, <<>>, FALSE)
    /\ UNCHANGED <<now, io, sink, disk, tasks>>

StoreCommand(w) ==
    /\ Running
    /\ state' = w.m
    /\ file' = w.f
    /\ UNCHANGED <<now, flush, enq_log, since_act, io, sink, disk, tasks>>

\* /priority mode <whitelist|blacklist|off>
PriorityMode(mode) == StoreCommand(set_priority_mode(World, mode).w)

\* The process stops (after shutdown()'s save when graceful) and starts
\* again: load(), then _check_startup_snooze up to its delivery loop.
Restart(graceful) ==
    /\ graceful => Running
    /\ LET f0 == IF graceful THEN save(World).f ELSE file
           s == _check_startup_snooze([m |-> load(f0, now), f |-> f0])
       IN /\ state' = s.w.m
          /\ file' = s.w.f
          /\ flush' = StartLoop("startup", s.queued)
          /\ enq_log' = NextLog(s.w.m.snooze_queue, <<>>)
          /\ since_act' = NextSince(s.w.m.snooze_queue, <<>>, FALSE)
    /\ UNCHANGED <<now, io, sink, disk, tasks>>

Next ==
    \/ Advance
    \/ \E e \in Events, r \in SendResults : HandleMessage(e, r)
    \/ Tick
    \/ \E r \in SendResults : FlushStep(r)
    \/ \E q \in BOOLEAN, d \in DurationTexts : _handle_snooze(q, d)
    \/ _handle_unsnooze
    \/ \E mode \in FilterModes : PriorityMode(mode)
    \/ \E g \in BOOLEAN : Restart(g)

Spec == Init /\ [][Next]_vars

----------------------------------------------------------------------------
(* Properties.  A property about what one handle_message call does is stated *)
(* over every reachable state, by applying the handler to the state.        *)

Qualifies(e) == should_alert(e).should_alert
\* The alert gates are reached and the priority filter lets the message through.
Unsnoozed == ~is_snoozed(World, now).ret
Passes(e) == should_process_message(state, e.sender_id, e.chat_id)
FailedSends == {"fail", "raise"}

\* C1: with snooze inactive and the filter passing, handle_message on a
\* qualifying message that has no dedup record and whose send succeeds makes
\* one delivery call and marks the (chat, message) pair processed, in memory
\* and in the file; and wherever the pair has a record, handle_message for it
\* makes no delivery call, and with snooze inactive and the filter passing it
\* records a dedup hit and leaves the store as it is.
C1_SuccessMarksThenDedups ==
    \A e \in Events :
        /\ (Unsnoozed /\ Passes(e) /\ Qualifies(e) /\ ~is_processed(state, e.chat_id, e.id))
           => LET first == handle_message(World, e, "ok", now)
              IN /\ Len(first.calls) = 1
                 /\ first.calls[1].body = format_alert(e, should_alert(e).trigger_type)
                 /\ is_processed(first.w.m, e.chat_id, e.id)
                 /\ first.w.f = [kind |-> "json", data |-> Snapshot(first.w.m)]
                 /\ \A r \in SendResults :
                       LET second == handle_message(first.w, e, r, now)
                       IN /\ second.calls = <<>>
                          /\ "dedup_hits" \in second.recorded
                          /\ second.w = first.w
        /\ is_processed(state, e.chat_id, e.id)
           => \A r \in SendResults :
                 LET again == handle_message(World, e, r, now)
                 IN /\ again.calls = <<>>
                    /\ (Unsnoozed /\ Passes(e) /\ Qualifies(e))
                       => /\ "dedup_hits" \in again.recorded
                          /\ again.w.m.processed_messages = state.processed_messages

\* A message was delivered and marked at an earlier time, and a handle_message
\* for it now is a dedup hit.
C1_Witness ==
    \E e \in Events :
        /\ is_processed(state, e.chat_id, e.id)
        /\ state.processed_messages[_make_key(e.chat_id, e.id)].timestamp < now
        /\ Unsnoozed /\ Passes(e) /\ Qualifies(e)
        /\ "dedup_hits" \in handle_message(World, e, "ok", now).recorded

\* C2: a dedup record appears only in a step that is a handle_message whose
\* send for that message returned success, and a handle_message whose send
\* fails or raises leaves processed_messages unchanged.
C2_NewRecord ==
    \A k \in (DOMAIN state'.processed_messages) \ (DOMAIN state.processed_messages) :
        \E e \in Events :
            LET res == handle_message(World, e, "ok", now)
            IN /\ k = _make_key(e.chat_id, e.id)
               /\ Len(res.calls) = 1
               /\ res.calls[1].result = "ok"
               /\ state' = res.w.m
               /\ DOMAIN state'.processed_messages = (DOMAIN state.processed_messages) \cup {k}
C2_FailureKeeps ==
    \A e \in Events, r \in FailedSends :
        handle_message(World, e, r, now).w.m.processed_messages = state.processed_messages
C2_RecordOnlyOnSuccess == [][C2_NewRecord]_vars /\ []C2_FailureKeeps

\* A send is due for a message (it would be marked on success), and a record
\* of another message exists from a successful send.
C2_Witness ==
    /\ state.processed_messages # EmptyDict
    /\ \E e \in Events :
          /\ ~is_processed(state, e.chat_id, e.id)
          /\ Len(handle_message(World, e, "fail", now).calls) = 1
          /\ is_processed(handle_message(World, e, "ok", now).w.m, e.chat_id, e.id)

\* C3: when is_snoozed() is true at the start of handle_message, there is no
\* delivery call and no new dedup record, and neither the priority filter nor
\* the dedup store is consulted (no filtered or dedup metric, and the outcome
\* is the same whatever they would say); a qualifying message is appended to
\* the queue when the behavior is queue and discarded when it is drop; a
\* non-qualifying message changes nothing.
C3_SnoozeGate ==
    is_snoozed(World, now).ret
    => \A e \in Events, r \in SendResults :
          LET res == handle_message(World, e, r, now)
              alert == QueuedAlert(e, should_alert(e).trigger_type)
          IN /\ res.calls = <<>>
             /\ res.w.m.processed_messages = state.processed_messages
             /\ res.recorded \cap {"priority_filtered", "dedup_hits", "alerts_sent"} = {}
             /\ (Qualifies(e) /\ state.snooze_behavior = "queue")
                => /\ res.enq = <<alert>>
                   /\ "snooze_queued" \in res.recorded
                   /\ Len(res.w.m.snooze_queue) >= 1
                   /\ res.w.m.snooze_queue[Len(res.w.m.snooze_queue)] = alert
                   /\ res.w.f = [kind |-> "json", data |-> Snapshot(res.w.m)]
             /\ (Qualifies(e) /\ state.snooze_behavior # "queue")
                => /\ res.w = World
                   /\ res.enq = <<>>
                   /\ "snooze_dropped" \in res.recorded
             /\ ~Qualifies(e)
                => /\ res.w = World
                   /\ res.enq = <<>>
                   /\ res.recorded = {"messages_received"}

\* During a queue-mode snooze an alert was queued for a message that already
\* has a dedup record and that the priority filter now rejects.
C3_Witness ==
    /\ is_snoozed(World, now).ret
    /\ state.snooze_behavior = "queue"
    /\ \E e \in Events :
          /\ Qualifies(e)
          /\ ~Passes(e)
          /\ is_processed(state, e.chat_id, e.id)
          /\ QueuedAlert(e, should_alert(e).trigger_type) \in Range(state.snooze_queue)

\* C4: the queue, in memory and in the file, never holds more than queue_limit
\* alerts; in queue mode queue_alert always succeeds, below capacity it only
\* appends, and at capacity it removes exactly the oldest entry and appends.
C4_QueueBounded ==
    /\ Len(state.snooze_queue) <= queue_limit
    /\ file.kind = "json" => Len(file.data.snooze.queue) <= queue_limit
    /\ state.snooze_behavior = "queue"
       => \A e \in {x \in Events : Qualifies(x)} :
             LET a == QueuedAlert(e, should_alert(e).trigger_type)
                 qa == queue_alert(World, a)
             IN /\ qa.ret
                /\ Len(qa.w.m.snooze_queue) <= queue_limit
                /\ qa.w.m.snooze_queue =
                      IF Len(state.snooze_queue) < queue_limit
                      THEN Append(state.snooze_queue, a)
                      ELSE Append(Tail(state.snooze_queue), a)

\* The queue is full after an append at capacity evicted an entry.
C4_Witness ==
    /\ Len(state.snooze_queue) = queue_limit
    /\ Len(enq_log) > queue_limit
    /\ state.snooze_behavior = "queue"

\* C5: after n appends into a queue that was empty, the queue is the last
\* queue_limit alerts appended, in insertion order (all n of them while
\* n <= queue_limit; for n = queue_limit + 1 its first entry is the second
\* alert appended).
C5_KeepsNewest == state.snooze_queue = LastN(enq_log, queue_limit)

\* One alert more than the capacity was appended: the first one is gone and
\* the queue starts with the second.
C5_Witness ==
    /\ Len(enq_log) = queue_limit + 1
    /\ state.snooze_queue[1] = enq_log[2]
    /\ enq_log[1] \notin Range(state.snooze_queue)

\* The points of time the clock takes.
TimePoints == {StartTime + k * ClockStep : k \in 0..MaxTicks}
Saved(w) == w.f = [kind |-> "json", data |-> Snapshot(w.m)]

C7_ExpiredOnce ==
    /\ state.snooze_active => Truthy(state.snooze_until)
    /\ \A t \in TimePoints :
          LET c == check_snooze_expired(World, t)
          IN /\ c.ret <=> (state.snooze_active /\ t > state.snooze_until[1])
             /\ c.ret => /\ ~c.w.m.snooze_active
                         /\ c.w = [World EXCEPT !.m.snooze_active = FALSE]
                         /\ \A t2 \in TimePoints :
                               t2 >= t => ~check_snooze_expired(c.w, t2).ret
             /\ ~c.ret => c.w = World
C7_OnlyActivationActivates ==
    (~state.snooze_active /\ state'.snooze_active)
    => \E q \in BOOLEAN, d \in DurationTexts :
          /\ parse_duration(d) # None
          /\ state' = activate_snooze(World, parse_duration(d)[1], q, now).m
C7_CheckExpired == []C7_ExpiredOnce /\ [][C7_OnlyActivationActivates]_vars

\* The window has gone past `until` with alerts in the queue and a check has
\* found it: Inactive, `until` and the queue still there.
C7_Witness ==
    /\ ~state.snooze_active
    /\ Truthy(state.snooze_until)
    /\ now > state.snooze_until[1]
    /\ state.snooze_queue # <<>>

\* C9: a delivery loop hands the queued alerts to send_alert one by one in
\* insertion order: after i iterations the first i alerts were attempted, and
\* whatever the next call does (success, failure or an exception) the loop
\* goes on to the alert after it, and ends only after the last one.
C9_AttemptsAllInOrder ==
    InProgress(flush)
    => /\ Len(flush.results) = flush.i
       /\ \A j \in 1..flush.i : flush.results[j].alert = flush.queued[j]
       /\ \A r \in SendResults :
             LET n == deliver_next(flush, r)
             IN IF flush.i + 1 < Len(flush.queued)
                THEN /\ InProgress(n)
                     /\ n.src = flush.src
                     /\ n.queued = flush.queued
                     /\ n.i = flush.i + 1
                     /\ n.results = Append(flush.results,
                                           [alert |-> flush.queued[flush.i + 1], result |-> r])
                ELSE n = Idle

\* The first delivery of a loop did not succeed and the loop is at the next alert.
C9_Witness ==
    /\ InProgress(flush)
    /\ flush.i >= 1
    /\ flush.results[1].result \in FailedSends

\* C10, as the spec states it: while a flush started by the scheduler tick or
\* by startup is in progress, every alert not yet attempted is still in the
\* persisted queue.  _deliver_snooze_queue and _check_startup_snooze empty
\* the queue and save before their loop, so this does not hold.
C10_UnattemptedPersisted ==
    (InProgress(flush) /\ flush.src \in {"tick", "startup"})
    => /\ file.kind = "json"
       /\ \A j \in (flush.i + 1)..Len(flush.queued) :
             flush.queued[j] \in Range(file.data.snooze.queue)

----------------------------------------------------------------------------
(* One snooze window under a fair scheduler: the main loop keeps ticking,    *)
(* the clock keeps advancing up to the horizon, and a delivery loop that     *)
(* has started runs to its end.  The window is the only one activated and    *)
(* ends within the horizon.                                                  *)

SnoozeOnce(queue_mode, duration_arg) ==
    /\ state.snooze_until = None
    /\ parse_duration(duration_arg) # None
    /\ now + parse_duration(duration_arg)[1] < MaxNow
    /\ _handle_snooze(queue_mode, duration_arg)

FairNext ==
    \/ Advance
    \/ \E e \in Events, r \in SendResults : HandleMessage(e, r)
    \/ Tick
    \/ \E r \in SendResults : FlushStep(r)
    \/ \E q \in BOOLEAN, d \in DurationTexts : SnoozeOnce(q, d)

FairSpec ==
    /\ Init
    /\ [][FairNext]_vars
    /\ WF_vars(Advance)
    /\ WF_vars(Tick)
    /\ WF_vars(\E r \in SendResults : FlushStep(r))

\* A queue-mode window has run past `until` with alerts in the queue.
ExpiredWithQueue ==
    /\ state.snooze_behavior = "queue"
    /\ state.snooze_queue # <<>>
    /\ Truthy(state.snooze_until)
    /\ now > state.snooze_until[1]

\* Every queued alert was taken out of the queue and handed to send_alert.
QueueFlushed == state.snooze_queue = <<>> /\ ~InProgress(flush)

\* C8, as the spec states it: once a queue-mode window has expired with a
\* non-empty queue, the fair scheduler tick eventually flushes the queue,
\* whether the tick or a handle_message (through is_snoozed) is the first to
\* see the expiry.  When is_snoozed() sees it first the tick's
\* check_snooze_expired() returns false ever after, so this does not hold.
C8_ExpiredQueueEventuallyFlushed == ExpiredWithQueue ~> QueueFlushed

----------------------------------------------------------------------------
(* The snooze controller on its own: the StateManager's snooze methods       *)
(* called directly, in any order, as its callers (the command handler, the   *)
(* message handler, the main loop) may.                                      *)

\* The durations handed to activate_snooze: negative, zero and positive.
Durations == {0 - ClockStep, 0, ClockStep}
\* The alerts handed to queue_alert.
Alerts == {QueuedAlert(e, should_alert(e).trigger_type) : e \in {x \in Events : Qualifies(x)}}

CallActivate(d, q) ==
    /\ LET w == activate_snooze(World, d, q, now)
       IN state' = w.m /\ file' = w.f
    /\ since_act' = 0
    /\ io' = [fn |-> "activate_snooze", args |-> <<d, q, now>>, ret |-> <<>>]
    /\ UNCHANGED <<now, flush, enq_log, sink, disk, tasks>>

CallDeactivate ==
    /\ LET d == deactivate_snooze(World)
       IN /\ state' = d.w.m
          /\ file' = d.w.f
          /\ io' = [fn |-> "deactivate_snooze", args |-> <<>>, ret |-> d.ret]
    /\ enq_log' = <<>>
    /\ since_act' = 0
    /\ UNCHANGED <<now, flush, sink, disk, tasks>>

CallCheckExpired ==
    /\ LET c == check_snooze_expired(World, now)
       IN /\ state' = c.w.m
          /\ file' = c.w.f
          /\ io' = [fn |-> "check_snooze_expired", args |-> <<now>>, ret |-> c.ret]
    /\ UNCHANGED <<now, flush, enq_log, since_act, sink, disk, tasks>>

CallIsSnoozed ==
    /\ LET c == is_snoozed(World, now)
       IN /\ state' = c.w.m
          /\ file' = c.w.f
          /\ io' = [fn |-> "is_snoozed", args |-> <<now>>, ret |-> c.ret]
    /\ UNCHANGED <<now, flush, enq_log, since_act, sink, disk, tasks>>

CallQueueAlert(a) ==
    /\ LET qa == queue_alert(World, a)
           enq == IF qa.ret THEN <<a>> ELSE <<>>
       IN /\ state' = qa.w.m
          /\ file' = qa.w.f
          /\ io' = [fn |-> "queue_alert", args |-> <<a>>, ret |-> qa.ret]
          /\ enq_log' = NextLog(qa.w.m.snooze_queue, enq)
          /\ since_act' = NextSince(qa.w.m.snooze_queue, enq, FALSE)
          /\ Len(enq_log') <= queue_limit + MaxOverflow
    /\ UNCHANGED <<now, flush, sink, disk, tasks>>

SnoozeNext ==
    \/ Advance
    \/ \E d \in Durations, q \in BOOLEAN : CallActivate(d, q)
    \/ CallDeactivate
    \/ CallCheckExpired
    \/ CallIsSnoozed
    \/ \E a \in Alerts : CallQueueAlert(a)

SnoozeSpec == Init /\ [][SnoozeNext]_vars

SnoozeFields(m) == <<m.snooze_active, m.snooze_until, m.snooze_behavior, m.snooze_queue>>

\* C11, as the spec states it: queue_alert appends and returns true when the
\* snooze is active with behavior queue, and in every other state returns
\* false and changes nothing.  queue_alert only looks at the behavior, which
\* outlives the window, so this does not hold.
C11_EnqueueOnlyWhenActiveQueue ==
    \A a \in Alerts :
        LET qa == queue_alert(World, a)
        IN IF state.snooze_active /\ state.snooze_behavior = "queue"
           THEN qa.ret /\ qa.w.m.snooze_queue # state.snooze_queue
           ELSE ~qa.ret /\ qa.w = World

\* C12, as the spec states it: activate_snooze with a duration <= 0 (such as
\* the 0 that parse_duration gives for "0m") leaves active, until, behavior
\* and queue as they were.  activate_snooze does not look at the duration, so
\* this does not hold.
C12_NonPositiveDurationRejected ==
    \A q \in BOOLEAN,
       d \in {x \in Durations : x <= 0} \cup {parse_duration(<<"0", "m">>)[1]} :
        SnoozeFields(activate_snooze(World, d, q, now).m) = SnoozeFields(state)

\* C13: activate_snooze(d, queue_mode) with d > 0 at time t gives an active
\* snooze with behavior queue or drop as asked and until = t + d, saved; and
\* as long as no other call intervenes, is_snoozed() is true at every time up
\* to and including t + d and false at every later time.
C13_SnoozedUntilEnd ==
    /\ \A d \in {x \in Durations : x > 0}, q \in BOOLEAN :
          LET w == activate_snooze(World, d, q, now)
          IN /\ w.m.snooze_active
             /\ w.m.snooze_until = Some(now + d)
             /\ w.m.snooze_behavior = IF q THEN "queue" ELSE "drop"
             /\ w.m.snooze_queue = state.snooze_queue
             /\ Saved(w)
             /\ \A t \in TimePoints :
                   t >= now => (is_snoozed(w, t).ret <=> t <= now + d)
    /\ (io.fn = "activate_snooze" /\ io.args[1] > 0)
       => /\ state.snooze_active
          /\ state.snooze_until = Some(io.args[3] + io.args[1])
          /\ state.snooze_behavior = IF io.args[2] THEN "queue" ELSE "drop"
          /\ is_snoozed(World, now).ret <=> now <= io.args[3] + io.args[1]

\* The clock has reached the end of a window activated one duration ago, and
\* is_snoozed() is still true.
C13_Witness ==
    /\ io.fn = "activate_snooze"
    /\ io.args[1] > 0
    /\ now = io.args[3] + io.args[1]
    /\ state.snooze_until = Some(now)
    /\ is_snoozed(World, now).ret

----------------------------------------------------------------------------
(* parse_duration on its own: one text, one call.                            *)

TextChars == {"0", "1", "2", "3", "5", "m", "h", "d", "x", "a", "b", "c", "H", " ", "-"}
Texts == UNION {[1..n -> TextChars] : n \in 0..MaxTextLen}

ParseInit ==
    /\ now = StartTime
    /\ state = DefaultState(StartTime)
    /\ file = NoFile
    /\ flush = Idle
    /\ enq_log = <<>>
    /\ since_act = 0
    /\ \E text \in Texts : io = [fn |-> "input", args |-> <<text>>, ret |-> <<>>]
    /\ sink = NotificationSink
    /\ disk = NoOtherFiles
    /\ tasks = NoTasks

CallParseDuration ==
    /\ io.fn = "input"
    /\ io' = [fn |-> "parse_duration", args |-> io.args, ret |-> parse_duration(io.args[1])]
    /\ UNCHANGED <<now, state, file, flush, enq_log, since_act, sink, disk, tasks>>

ParseNext == CallParseDuration

ParseSpec == ParseInit /\ [][ParseNext]_vars

UnitSeconds(u) == IF u = "m" THEN 60 ELSE IF u = "h" THEN 3600 ELSE 86400
\* The text is exactly <digits><unit>.
PlainDuration(x) ==
    /\ Len(x) >= 2
    /\ x[Len(x)] \in {"m", "h", "d"}
    /\ \A k \in 1..(Len(x) - 1) : x[k] \in Digits
\* The places i..j of the text hold <digits><unit>, the unit in either case,
\* and there is only whitespace around them.
DurationAt(x, i, j) ==
    /\ 1 <= i /\ i < j /\ j <= Len(x)
    /\ \A k \in 1..(i - 1) : x[k] \in Whitespace
    /\ \A k \in (j + 1)..Len(x) : x[k] \in Whitespace
    /\ \A k \in i..(j - 1) : x[k] \in Digits
    /\ x[j] \in {"m", "h", "d", "M", "H", "D"}

\* C14, as the spec states it: parse_duration returns n * 60, n * 3600 or
\* n * 86400 exactly when the text is <integer n><unit> with unit m, h or d,
\* and None for every other text.  The text is lowercased and stripped before
\* it is matched, so texts such as "2H" and " 2m" are accepted too.
C14_AsStated ==
    io.fn = "parse_duration"
    => LET x == io.args[1]
       IN io.ret = IF PlainDuration(x)
                   THEN Some(StrNat(SubSeq(x, 1, Len(x) - 1)) * UnitSeconds(x[Len(x)]))
                   ELSE None

\* C14: parse_duration returns n * 60, n * 3600 or n * 86400 exactly when the
\* text, surrounding whitespace aside, is <digits of n><unit> with unit m, h
\* or d in either case, and None for every other text.
C14_ParseDuration ==
    io.fn = "parse_duration"
    => LET x == io.args[1]
       IN /\ io.ret # None
             <=> \E i \in 1..Len(x), j \in 1..Len(x) : DurationAt(x, i, j)
          /\ \A i \in 1..Len(x), j \in 1..Len(x) :
                DurationAt(x, i, j)
                => io.ret = Some(StrNat(SubSeq(x, i, j - 1))
                                 * UnitSeconds(LowerChar(x[j])))
          /\ x = <<"3", "0", "m">> => io.ret = Some(1800)
          /\ x = <<"2", "h">> => io.ret = Some(7200)
          /\ x = <<"1", "d">> => io.ret = Some(86400)
          /\ x \in {<<"a", "b", "c">>, <<>>, <<"5", "x">>, <<"m">>, <<"3", "0">>,
                    <<"-", "3", "m">>, <<"3", "m", "m">>, <<"3", " ", "m">>}
             => io.ret = None

\* A text with leading whitespace and an uppercase unit was parsed.
C14_Witness ==
    /\ io.fn = "parse_duration"
    /\ io.args[1] = <<" ", "2", "H">>
    /\ io.ret = Some(7200)

----------------------------------------------------------------------------
(* The priority filter on its own: the StateManager's filter methods called  *)
(* directly, in any order.                                                   *)

\* A user and a group chat that can be listed, and the names they are given.
ContactIds == {2, -5}
ContactNames == {"Ann", "Bob"}
\* The legal modes and a value that is not one.
LegalModes == {"disabled", "whitelist", "blacklist"}
ModeValues == LegalModes \cup {"vip"}

\* A call of one of the contact list methods, which return [w, ret].
ListCall(fn, args, r) ==
    /\ state' = r.w.m
    /\ file' = r.w.f
    /\ io' = [fn |-> fn, args |-> args, ret |-> r.ret]
    /\ UNCHANGED <<now, flush, enq_log, since_act, sink, disk, tasks>>

CallSetMode(mode) ==
    /\ LET r == set_priority_mode(World, mode)
       IN /\ state' = r.w.m
          /\ file' = r.w.f
          /\ io' = [fn |-> "set_priority_mode", args |-> <<mode, state.priority_mode>>,
                    ret |-> [raised |-> r.raised, ret |-> r.ret]]
    /\ UNCHANGED <<now, flush, enq_log, since_act, sink, disk, tasks>>

CallAddPriority(id, name) ==
    ListCall("add_priority_contact", <<id, name>>, add_priority_contact(World, id, name))
CallRemovePriority(id) ==
    ListCall("remove_priority_contact", <<id>>, remove_priority_contact(World, id))
CallAddMuted(id, name) ==
    ListCall("add_muted_contact", <<id, name>>, add_muted_contact(World, id, name))
CallRemoveMuted(id) ==
    ListCall("remove_muted_contact", <<id>>, remove_muted_contact(World, id))

FilterNext ==
    \/ \E mode \in ModeValues : CallSetMode(mode)
    \/ \E id \in ContactIds, name \in ContactNames : CallAddPriority(id, name)
    \/ \E id \in ContactIds : CallRemovePriority(id)
    \/ \E id \in ContactIds, name \in ContactNames : CallAddMuted(id, name)
    \/ \E id \in ContactIds : CallRemoveMuted(id)

FilterSpec == Init /\ [][FilterNext]_vars

\* The ids a message can carry: the listable ones and one that is never listed.
MessageIds == ContactIds \cup {3}
\* Contents a contact list can have.
ListContents == {[k \in ks |-> "Ann"] : ks \in SUBSET ContactIds}
Listed == DOMAIN state.priority_whitelist
Muted == DOMAIN state.priority_blacklist

\* C15: for every sender id, chat id and contents of the lists,
\* should_process_message is true in disabled mode, (sender listed or chat
\* listed) in whitelist mode, and (sender not muted and chat not muted) in
\* blacklist mode; so an empty whitelist rejects everything and an empty
\* blacklist accepts everything; and the result does not depend on the list
\* of the other mode.
C15_ShouldProcess ==
    \A sender \in MessageIds, chat \in MessageIds :
        LET r == should_process_message(state, sender, chat)
        IN /\ state.priority_mode = "disabled" => r
           /\ state.priority_mode = "whitelist"
              => /\ r <=> (sender \in Listed \/ chat \in Listed)
                 /\ Listed = {} => ~r
                 /\ \A other \in ListContents :
                       should_process_message(
                           [state EXCEPT !.priority_blacklist = other], sender, chat) = r
           /\ state.priority_mode = "blacklist"
              => /\ r <=> (sender \notin Muted /\ chat \notin Muted)
                 /\ Muted = {} => r
                 /\ \A other \in ListContents :
                       should_process_message(
                           [state EXCEPT !.priority_whitelist = other], sender, chat) = r
           /\ state.priority_mode = "disabled"
              => \A one \in ListContents, other \in ListContents :
                    should_process_message(
                        [state EXCEPT !.priority_whitelist = one,
                                      !.priority_blacklist = other], sender, chat)

\* In whitelist mode a message of a muted sender in a listed chat passes, and
\* a message of a listed sender in an unlisted chat passes too.
C15_Witness ==
    /\ state.priority_mode = "whitelist"
    /\ Listed = {-5}
    /\ Muted = {2}
    /\ should_process_message(state, 2, -5)
    /\ ~should_process_message(state, 2, 3)

\* m2 is m except, at most, for the filter mode / the whitelist / the blacklist.
SameButMode(m2, m) == m2 = [m EXCEPT !.priority_mode = m2.priority_mode]
SameButListed(m2, m) == m2 = [m EXCEPT !.priority_whitelist = m2.priority_whitelist]
SameButMuted(m2, m) == m2 = [m EXCEPT !.priority_blacklist = m2.priority_blacklist]

\* C16: set_priority_mode changes nothing but the mode (it is saved with both
\* lists as they were), also over two mode changes in a row; add and remove
\* on the priority list change nothing but that list, and add and remove on
\* the muted list change nothing but that list.
C16_FilterFrame ==
    /\ \A m1 \in LegalModes :
          LET r1 == set_priority_mode(World, m1)
          IN /\ SameButMode(r1.w.m, state)
             /\ r1.w.m.priority_mode = m1
             /\ Saved(r1.w)
             /\ \A m2 \in LegalModes :
                   LET r2 == set_priority_mode(r1.w, m2)
                   IN /\ SameButMode(r2.w.m, state)
                      /\ r2.w.f.data.priority_contacts.whitelist = StrKeys(state.priority_whitelist)
                      /\ r2.w.f.data.priority_contacts.blacklist = StrKeys(state.priority_blacklist)
    /\ \A id \in ContactIds, name \in ContactNames :
          /\ SameButListed(add_priority_contact(World, id, name).w.m, state)
          /\ SameButListed(remove_priority_contact(World, id).w.m, state)
          /\ SameButMuted(add_muted_contact(World, id, name).w.m, state)
          /\ SameButMuted(remove_muted_contact(World, id).w.m, state)

\* The mode was switched from one list mode to the other with contacts on
\* both lists, and both lists are still there.
C16_Witness ==
    /\ io.fn = "set_priority_mode"
    /\ io.args = <<"blacklist", "whitelist">>
    /\ state.priority_mode = "blacklist"
    /\ Listed = ContactIds
    /\ Muted # {}

\* C17: set_priority_mode with a value that is not disabled, whitelist or
\* blacklist raises and leaves the mode, both lists and the file unchanged;
\* with a legal value it sets the mode and returns a non-empty warning exactly
\* when the previous and the new mode are whitelist and blacklist in either
\* order, and the empty string in every other case.
C17_SetModeResult ==
    \A mode \in ModeValues :
        LET r == set_priority_mode(World, mode)
            old == state.priority_mode
        IN IF mode \notin LegalModes
           THEN r.raised /\ r.w = World
           ELSE /\ ~r.raised
                /\ r.w.m.priority_mode = mode
                /\ r.ret # <<>> <=> {old, mode} = {"whitelist", "blacklist"}
                /\ (mode = old \/ mode = "disabled" \/ old = "disabled") => r.ret = <<>>

\* An illegal value was refused while the filter was in blacklist mode with a
\* muted contact.
C17_Witness ==
    /\ io.fn = "set_priority_mode"
    /\ io.args = <<"vip", "blacklist">>
    /\ io.ret.raised
    /\ state.priority_mode = "blacklist"
    /\ Muted # {}

\* list2 is list with id mapped to name and nothing else changed.
Inserted(list2, list, id, name) ==
    /\ DOMAIN list2 = (DOMAIN list) \cup {id}
    /\ list2[id] = name
    /\ \A k \in (DOMAIN list) \ {id} : list2[k] = list[k]
\* list2 is list without id and nothing else changed.
Deleted(list2, list, id) ==
    /\ DOMAIN list2 = (DOMAIN list) \ {id}
    /\ \A k \in DOMAIN list2 : list2[k] = list[k]

\* C18: on the priority list and on the muted list alike, add(id, name)
\* returns true, inserts and saves when id is absent, and returns false and
\* changes nothing (the stored name included) when id is present; remove(id)
\* returns true, deletes and saves when id is present, and returns false and
\* changes nothing when absent; a second add of the same id, under any name,
\* returns false and leaves what the first add left.
C18_AddRemove ==
    \A id \in ContactIds, name \in ContactNames :
        LET ap == add_priority_contact(World, id, name)
            rp == remove_priority_contact(World, id)
            am == add_muted_contact(World, id, name)
            rm == remove_muted_contact(World, id)
        IN /\ IF id \in Listed
              THEN /\ ~ap.ret /\ ap.w = World
                   /\ rp.ret /\ Saved(rp.w)
                   /\ Deleted(rp.w.m.priority_whitelist, state.priority_whitelist, id)
              ELSE /\ ap.ret /\ Saved(ap.w)
                   /\ Inserted(ap.w.m.priority_whitelist, state.priority_whitelist, id, name)
                   /\ ~rp.ret /\ rp.w = World
           /\ IF id \in Muted
              THEN /\ ~am.ret /\ am.w = World
                   /\ rm.ret /\ Saved(rm.w)
                   /\ Deleted(rm.w.m.priority_blacklist, state.priority_blacklist, id)
              ELSE /\ am.ret /\ Saved(am.w)
                   /\ Inserted(am.w.m.priority_blacklist, state.priority_blacklist, id, name)
                   /\ ~rm.ret /\ rm.w = World
           /\ \A name2 \in ContactNames :
                 /\ add_priority_contact(ap.w, id, name2) = [w |-> ap.w, ret |-> FALSE]
                 /\ add_muted_contact(am.w, id, name2) = [w |-> am.w, ret |-> FALSE]

\* A contact already on the priority list was added again under another name:
\* the call returned false and the first name is still stored.
C18_Witness ==
    /\ io.fn = "add_priority_contact"
    /\ io.ret = FALSE
    /\ io.args[1] \in Listed
    /\ state.priority_whitelist[io.args[1]] # io.args[2]

----------------------------------------------------------------------------
(* The dedup store on its own: mark_processed called directly for any pair,  *)
(* and the store reopened (a fresh StateManager on the same file).           *)

\* Chat ids (a negative one among them) and message ids whose decimal texts
\* are prefixes of each other.
DedupChats == {1, 11, -1}
DedupMessages == {1, 11}
TriggerTypes == {"DM", "Mention"}

CallMarkProcessed(chat_id, message_id, trigger_type) ==
    /\ LET w == mark_processed(World, chat_id, message_id, trigger_type, now)
       IN state' = w.m /\ file' = w.f
    /\ io' = [fn |-> "mark_processed", args |-> <<chat_id, message_id, trigger_type>>,
              ret |-> <<>>]
    /\ UNCHANGED <<now, flush, enq_log, since_act, sink, disk, tasks>>

Reopen ==
    /\ state' = load(file, now)
    /\ io' = [fn |-> "load", args |-> <<>>, ret |-> <<>>]
    /\ UNCHANGED <<now, file, flush, enq_log, since_act, sink, disk, tasks>>

DedupNext ==
    \/ \E c \in DedupChats, m \in DedupMessages, tt \in TriggerTypes :
          CallMarkProcessed(c, m, tt)
    \/ Reopen

DedupSpec == Init /\ [][DedupNext]_vars

\* C19: for every pair, after mark_processed(chat, message, type)
\* is_processed(chat, message) is true, and it is true in a fresh store that
\* loads the file at that or any later time; and every pair that is processed
\* in the store is processed in a store reopened on its file.
C19_MarkedStaysMarked ==
    /\ \A c \in DedupChats, m \in DedupMessages, tt \in TriggerTypes :
          LET w == mark_processed(World, c, m, tt, now)
          IN /\ is_processed(w.m, c, m)
             /\ \A t \in TimePoints :
                   t >= now
                   => /\ is_processed(load(w.f, t), c, m)
                      /\ load(w.f, t).processed_messages = w.m.processed_messages
    /\ \A c \in DedupChats, m \in DedupMessages :
          is_processed(state, c, m) => is_processed(load(file, now), c, m)

\* The store was reopened after a pair with a negative chat id was marked, and
\* the pair is still processed.
C19_Witness ==
    /\ io.fn = "load"
    /\ is_processed(state, -1, 11)
    /\ file.kind = "json"
    /\ _make_key(-1, 11) \in DOMAIN file.data.processed_messages

\* C20: mark_processed(c, m) makes is_processed true for the pair (c, m) and
\* for no other pair: every other pair (another message of the same chat, the
\* same message id in another chat, the ids swapped, the chat id negated) is
\* processed after the call exactly if it was before; so the store holds one
\* record for each processed pair.
C20_KeyedOnPair ==
    /\ \A c \in DedupChats, m \in DedupMessages, tt \in TriggerTypes :
          LET w == mark_processed(World, c, m, tt, now)
          IN \A c2 \in DedupChats \cup DedupMessages, m2 \in DedupMessages \cup DedupChats :
                is_processed(w.m, c2, m2)
                <=> (<<c2, m2>> = <<c, m>> \/ is_processed(state, c2, m2))
    /\ Cardinality({p \in DedupChats \X DedupMessages : is_processed(state, p[1], p[2])})
          = Cardinality(DOMAIN state.processed_messages)

\* Message 11 of chat 1 is processed; message 1 of chat 11, message 1 of
\* chat 1 and message 11 of chat -1 are not.
C20_Witness ==
    /\ is_processed(state, 1, 11)
    /\ ~is_processed(state, 11, 1)
    /\ ~is_processed(state, 1, 1)
    /\ ~is_processed(state, -1, 11)
    /\ io.fn = "mark_processed"

----------------------------------------------------------------------------
(* The periodic cleanup: records marked at different times, the clock moving *)
(* by half days and by the retention period, the main loop's iteration, and  *)
(* cleanup_old_entries called directly.                                      *)

HalfDay == 12 * 60 * 60
RetentionSeconds == RetentionDays * 24 * 60 * 60
\* How many times the clock moves in the cleanup runs.
MaxElapses == 4
ElapseSteps == {HalfDay, RetentionSeconds}
Elapsed == ((now - StartTime) % RetentionSeconds) \div HalfDay
               + (now - StartTime) \div RetentionSeconds

CleanupDays == {1, RetentionDays}
CleanupMessages == {1, 11}

Elapse(step) ==
    /\ Elapsed < MaxElapses
    /\ now' = now + step
    /\ UNCHANGED <<state, file, flush, enq_log, since_act, io, sink, disk, tasks>>

CallCleanup(days) ==
    /\ LET w == cleanup_old_entries(World, days, now)
       IN state' = w.m /\ file' = w.f
    /\ io' = [fn |-> "cleanup_old_entries", args |-> <<days, now>>, ret |-> <<>>]
    /\ UNCHANGED <<now, flush, enq_log, since_act, sink, disk, tasks>>

CleanupNext ==
    \/ \E step \in ElapseSteps : Elapse(step)
    \/ \E m \in CleanupMessages : CallMarkProcessed(1, m, "DM")
    \/ \E days \in CleanupDays : CallCleanup(days)
    \/ Tick

CleanupSpec == Init /\ [][CleanupNext]_vars

\* C21: cleanup_old_entries(days) at time now, with cutoff = now - days days,
\* leaves exactly the records whose timestamp is not older than the cutoff
\* (timestamp >= cutoff, so a record exactly at the cutoff stays), unchanged.
C21_RemovesOlderKeepsCutoff ==
    \A days \in CleanupDays :
        LET cutoff == now - days * 24 * 60 * 60
            before == state.processed_messages
            after == cleanup_old_entries(World, days, now).m.processed_messages
        IN /\ DOMAIN after = {k \in DOMAIN before : before[k].timestamp >= cutoff}
           /\ \A k \in DOMAIN after : after[k] = before[k]

\* C22: whenever should_cleanup() is true, so that the main loop's iteration
\* runs cleanup_old_entries(), should_cleanup() is false once that call has
\* returned (and on the following iterations, until another 24 hours have
\* passed), whether or not the call removed a record.
C22_FalseAfterCleanupRan ==
    should_cleanup(state, now)
    => \A t \in {now, now + ClockStep} :
          ~should_cleanup(cleanup_old_entries(World, RetentionDays, now).m, t)

----------------------------------------------------------------------------
(* The notification sink on its own: send_alert calls of two callers, which  *)
(* interleave where a call is suspended, every outcome of each POST, and the *)
(* loop's clock.                                                             *)

\* How many seconds the clock runs.
MaxSeconds == 4
MaxRetriesValues == {1, DefaultMaxRetries}

call_of(c) == sink.calls[c]

SendAlert(c, max_retries) ==
    /\ call_of(c).pc \in {"idle", "done"}
    /\ sink' = [sink EXCEPT !.calls[c] = send_alert_call(sink, max_retries, now)]
    /\ io' = [fn |-> "send_alert", args |-> <<c, max_retries>>, ret |-> <<>>]
    /\ UNCHANGED <<now, state, file, flush, enq_log, since_act, disk, tasks>>

\* asyncio.sleep may return late, never early.
WakeUp(c) ==
    /\ call_of(c).pc \in {"rate_limit", "sleep"}
    /\ now >= call_of(c).wake
    /\ sink' = [sink EXCEPT !.calls[c] = wake_up(@)]
    /\ io' = [fn |-> "sleep", args |-> <<c>>, ret |-> <<>>]
    /\ UNCHANGED <<now, state, file, flush, enq_log, since_act, disk, tasks>>

PostOutcome(c, o) ==
    /\ call_of(c).pc = "await"
    /\ LET r == on_outcome(sink, call_of(c), o, now)
       IN sink' = [r.s EXCEPT !.calls[c] = r.call]
    /\ io' = [fn |-> "post", args |-> <<c, call_of(c).attempt, o>>, ret |-> <<>>]
    /\ UNCHANGED <<now, state, file, flush, enq_log, since_act, disk, tasks>>

Lapse ==
    /\ now < StartTime + MaxSeconds
    /\ now' = now + 1
    /\ UNCHANGED <<state, file, flush, enq_log, since_act, io, sink, disk, tasks>>

NotifierNext ==
    \/ \E c \in Callers, n \in MaxRetriesValues : SendAlert(c, n)
    \/ \E c \in Callers : WakeUp(c)
    \/ \E c \in Callers, o \in PostOutcomes : PostOutcome(c, o)
    \/ Lapse

NotifierSpec == Init /\ [][NotifierNext]_vars

Finished(call) == call.pc = "done"
\* The step dispatches a POST of caller c.
Dispatches(c) == sink'.calls[c].pc = "await" /\ call_of(c).pc # "await"
\* What the last POST came to, and for which caller and attempt.
LastOutcome == io.args[3]
LastCaller == io.args[1]
LastAttempt == io.args[2]

\* C23: a send_alert call dispatches at most max_retries POSTs; when it has
\* returned True its last POST was the first one to succeed (k failures, then
\* success at attempt k: k + 1 POSTs, so 3 after two failures); when it has
\* returned False every one of exactly max_retries POSTs failed; a POST that
\* succeeds ends the call with True, and a finished call dispatches nothing
\* more (only a new call changes it).
C23_Bounded ==
    \A c \in Callers :
        LET call == call_of(c)
        IN /\ call.posts <= call.max_retries
           /\ call.pc \in {"await", "sleep"} => call.posts = call.attempt + 1
           /\ call.pc = "sleep" => call.posts < call.max_retries
           /\ Finished(call) /\ call.ret = Some(TRUE)
                 => call.posts = call.attempt + 1
           /\ Finished(call) /\ call.ret = Some(FALSE)
                 => call.posts = call.max_retries /\ call.attempt = call.max_retries - 1
           /\ call.pc = "await"
                 => /\ Finished(on_outcome(sink, call, Ok200, now).call)
                    /\ on_outcome(sink, call, Ok200, now).call.ret = Some(TRUE)
                    /\ \A o \in PostOutcomes \ {Ok200} :
                          LET after == on_outcome(sink, call, o, now).call
                          IN IF call.posts = call.max_retries
                             THEN Finished(after) /\ after.ret = Some(FALSE)
                             ELSE after.pc = "sleep"
C23_NothingAfterReturn ==
    \A c \in Callers :
        Finished(call_of(c)) /\ sink'.calls[c] # call_of(c)
        => \E n \in MaxRetriesValues : sink'.calls[c] = send_alert_call(sink, n, now)
C23_AtMostMaxRetries == []C23_Bounded /\ [][C23_NothingAfterReturn]_vars

\* A call with max_retries = 3 returned True after exactly three POSTs: the
\* first two failed, the third succeeded.
C23_Witness ==
    /\ io.fn = "post" /\ LastOutcome = Ok200 /\ LastAttempt = 2
    /\ LET call == call_of(LastCaller)
       IN /\ Finished(call) /\ call.ret = Some(TRUE)
          /\ call.posts = 3 /\ call.max_retries = DefaultMaxRetries

\* C24: no POST, first attempt or retry, is dispatched less than
\* min_alert_interval after the last successful send.
C24_Dispatch ==
    \A c \in Callers :
        Dispatches(c) => now >= sink.last_alert_time + min_alert_interval
C24_RateLimitBeforeEveryAttempt == [][C24_Dispatch]_vars

\* C25: the first POST of a call is dispatched no earlier than
\* min_alert_interval after the last success that preceded the call (so a call
\* made less than the interval after a success at t dispatches at t +
\* min_alert_interval or later), and last_alert_time changes only when a POST
\* succeeds, to the time of that success.
C25_FirstDispatch ==
    \A c \in Callers :
        Dispatches(c) /\ sink'.calls[c].attempt = 0
        => now >= sink'.calls[c].floor + min_alert_interval
C25_OnlySuccessUpdates ==
    sink'.last_alert_time # sink.last_alert_time
    => /\ sink'.last_alert_time = now
       /\ \E c \in Callers :
             /\ call_of(c).pc = "await"
             /\ Finished(sink'.calls[c]) /\ sink'.calls[c].ret = Some(TRUE)
C25_SecondCallDelayed == [][C25_FirstDispatch /\ C25_OnlySuccessUpdates]_vars

\* A call made before the interval had passed since the last success slept in
\* _rate_limit and has dispatched its first POST at the end of the interval.
C25_Witness ==
    \E c \in Callers :
        LET call == call_of(c)
        IN /\ call.pc = "await" /\ call.attempt = 0
           /\ call.floor >= StartTime
           /\ call.wake = call.floor + min_alert_interval
           /\ now = call.wake

\* C26: after a failed attempt k that is not the last one the call sleeps
\* retry_after seconds (5 when the response names none) if the response's
\* status was 429, and 2^k seconds for a network error and every other
\* failure; after the last attempt it returns False without sleeping.
C26_Backoff ==
    \A c \in Callers :
        LET call == call_of(c)
        IN call.pc = "await"
           => \A o \in PostOutcomes \ {Ok200} :
                 LET after == on_outcome(sink, call, o, now).call
                     expected == IF o.kind = "response" /\ o.status = 429
                                 THEN IF o.retry_after = None THEN 5
                                      ELSE o.retry_after[1]
                                 ELSE 2 ^ call.attempt
                 IN IF call.attempt = call.max_retries - 1
                    THEN Finished(after) /\ after.ret = Some(FALSE)
                    ELSE after.pc = "sleep" /\ after.wake = now + expected

\* C27: whatever a POST comes to, on every attempt, the call goes on to a
\* retry or returns a boolean: nothing propagates to the caller, and a
\* finished call has returned True or False.
C27_NeverRaises ==
    \A c \in Callers :
        LET call == call_of(c)
        IN /\ ~call.raised
           /\ Finished(call) => call.ret \in {Some(TRUE), Some(FALSE)}
           /\ ~Finished(call) => call.ret = None
           /\ call.pc = "await"
                 => \A o \in PostOutcomes :
                       LET after == on_outcome(sink, call, o, now).call
                       IN /\ ~after.raised
                          /\ \/ after.pc = "sleep" /\ after.ret = None
                             \/ Finished(after) /\ after.ret \in {Some(TRUE), Some(FALSE)}

\* The last attempt of a call ended in an exception that is not a ClientError,
\* and the call returned False.
C27_Witness ==
    /\ io.fn = "post" /\ LastOutcome = Raised("Exception")
    /\ LET call == call_of(LastCaller)
       IN Finished(call) /\ call.ret = Some(FALSE) /\ call.posts = DefaultMaxRetries

----------------------------------------------------------------------------
(* Opening the store on whatever the state file holds: a snapshot, nothing,  *)
(* text that does not decode, or JSON that load() cannot take in.            *)

\* The state file is damaged or deleted from outside the program.
Garbage == [kind |-> "corrupt", data |-> [text |-> "garbage"]]
Damage(kind) ==
    /\ file.kind = "json"
    /\ file' = IF kind = "corrupt" THEN Garbage
               ELSE IF kind = "invalid" THEN [kind |-> "invalid", data |-> file.data]
               ELSE NoFile
    /\ io' = [fn |-> "damage", args |-> <<kind>>, ret |-> <<>>]
    /\ UNCHANGED <<now, state, flush, enq_log, since_act, sink, disk, tasks>>

\* StateManager(state_file): __init__ and its load(); `renamed` is whether
\* os.rename of an undecodable file succeeds.
OpenStore(renamed) ==
    /\ file.kind # "corrupt" => renamed
    /\ state' = load(file, now)
    /\ LET b == backup_corrupted(file, disk, now, renamed)
       IN file' = b.f /\ disk' = b.d
    /\ io' = [fn |-> "load", args |-> <<file, renamed>>, ret |-> <<>>]
    /\ UNCHANGED <<now, flush, enq_log, since_act, sink, tasks>>

LoadNext ==
    \/ \E m \in CleanupMessages : CallMarkProcessed(1, m, "DM")
    \/ \E id \in ContactIds : CallAddPriority(id, "Ann")
    \/ \E q \in BOOLEAN : CallActivate(ClockStep, q)
    \/ \E kind \in {"corrupt", "invalid", "missing"} : Damage(kind)
    \/ \E renamed \in BOOLEAN : OpenStore(renamed)

LoadSpec == Init /\ [][LoadNext]_vars

\* The file load() found, and whether it could rename it.
Opened == io.args[1]
Renamed == io.args[2]
BackedUp(f) == now \in DOMAIN disk.backup /\ disk.backup[now] = f /\ file = NoFile

\* C28 as stated: after load() found no file, an undecodable file or a file
\* it fails on otherwise, the store is in the empty default state, and the
\* undecodable file has been renamed to <path>.backup.<epoch>.
C28_AsStated ==
    io.fn = "load" /\ Opened.kind # "json"
    => /\ state = DefaultState(now)
       /\ Opened.kind = "corrupt" => BackedUp(Opened)

\* C28: load() ends for every file.  After it found no file, an undecodable
\* file or a file it fails on otherwise, the store is in the empty default
\* state; the undecodable file has been renamed to <path>.backup.<epoch> if
\* os.rename succeeded and is still in place if it failed; every other file
\* is left as it was; a file that loads gives the state of its snapshot.
C28_LoadNeverRaises ==
    /\ \A f \in {NoFile, Garbage, file, [kind |-> "invalid", data |-> Snapshot(state)]} :
          /\ LoadFails(f) \/ f = NoFile => load(f, now) = DefaultState(now)
          /\ f.kind = "json" => load(f, now) = load_data(f.data, now)
    /\ io.fn = "load"
       => /\ Opened.kind # "json"
             => /\ state = DefaultState(now)
                /\ state.processed_messages = EmptyDict
                /\ state.priority_mode = "disabled"
                /\ state.priority_whitelist = EmptyDict
                /\ state.priority_blacklist = EmptyDict
                /\ ~state.snooze_active /\ state.snooze_queue = <<>>
          /\ Opened.kind = "json" => state = load_data(Opened.data, now)
          /\ IF Opened.kind = "corrupt" /\ Renamed
             THEN BackedUp(Opened)
             ELSE file = Opened

\* The store was opened on an undecodable file: the file is now the backup
\* and the store is empty.
C28_Witness ==
    /\ io.fn = "load" /\ Opened = Garbage /\ Renamed
    /\ BackedUp(Garbage)
    /\ state = DefaultState(now)

\* C29: when a mutating method of the snooze state has returned (activation,
\* deactivation, the expiry transition of check_snooze_expired, an append to
\* the queue), the state file holds the snapshot of the in-memory state.
C29_PersistedAfterMutation ==
    \/ io.fn \in {"activate_snooze", "deactivate_snooze"}
    \/ io.fn \in {"check_snooze_expired", "queue_alert"} /\ io.ret = TRUE
    => Saved(World)

----------------------------------------------------------------------------
(* save() step by step, with the process stopping at any point between two   *)
(* steps and the store opened again on what is on disk.                      *)

SaveStep == io.args[1]
Previous == io.args[2]

\* mark_processed up to the open() of its save()
StartSave(message_id, trigger_type) ==
    /\ io.fn # "save"
    /\ state' = mark_processed(World, 1, message_id, trigger_type, now).m
    /\ LET o == save_open(file, disk)
       IN file' = o.f /\ disk' = o.d
    /\ io' = [fn |-> "save", args |-> <<"opened", file>>, ret |-> <<>>]
    /\ UNCHANGED <<now, flush, enq_log, since_act, sink, tasks>>

WritePart ==
    /\ io.fn = "save" /\ SaveStep = "opened"
    /\ LET o == save_dump_part(file, disk)
       IN file' = o.f /\ disk' = o.d
    /\ io' = [io EXCEPT !.args[1] = "partial"]
    /\ UNCHANGED <<now, state, flush, enq_log, since_act, sink, tasks>>

WriteAll ==
    /\ io.fn = "save" /\ SaveStep \in {"opened", "partial"}
    /\ LET o == save_dump(state, file, disk)
       IN file' = o.f /\ disk' = o.d
    /\ io' = [io EXCEPT !.args[1] = "written"]
    /\ UNCHANGED <<now, state, flush, enq_log, since_act, sink, tasks>>

Rename ==
    /\ io.fn = "save" /\ SaveStep = "written"
    /\ LET o == save_rename(file, disk)
       IN file' = o.f /\ disk' = o.d
    /\ io' = [fn |-> "saved", args |-> <<>>, ret |-> <<>>]
    /\ UNCHANGED <<now, state, flush, enq_log, since_act, sink, tasks>>

\* The process stops (wherever it is) and starts again.
Crash == \E renamed \in BOOLEAN : OpenStore(renamed)

SaveNext ==
    \/ \E m \in CleanupMessages, tt \in TriggerTypes : StartSave(m, tt)
    \/ WritePart
    \/ WriteAll
    \/ Rename
    \/ Crash

SaveSpec == Init /\ [][SaveNext]_vars

\* C30: at every step of save() the state file is what it was before the
\* call (no file or the complete previous snapshot) until the rename, and the
\* complete new snapshot after it; so whenever the process stops, load()
\* finds a file it can load (or none), restores exactly that snapshot, and
\* renames nothing to a backup.
C30_SaveAtomic ==
    /\ ~LoadFails(file)
    /\ disk.backup = EmptyDict
    /\ io.fn = "save" => file = Previous
    /\ io.fn = "saved" => Saved(World) /\ disk.tmp = NoFile
    /\ io.fn = "load" => /\ ~LoadFails(Opened)
                         /\ file = Opened
                         /\ state = load(Opened, now)
    /\ save(World).f = save_rename(file, save_dump(state, file, save_open(file, disk).d).d).f

\* The process stopped while the second save() was writing the temporary
\* file: the store opened again holds the first snapshot.
C30_Witness ==
    /\ io.fn = "load"
    /\ disk.tmp.kind = "corrupt"
    /\ file.kind = "json"
    /\ DOMAIN state.processed_messages = {_make_key(1, 1)}
    /\ file.data = Snapshot(state)

----------------------------------------------------------------------------
(* The trigger engine on its own: one event, one should_alert call.  The      *)
(* event is any combination of what the engine reads from it.                *)

ReplyLookups == {"me", "other", "none", "error"}

TriggerEvents ==
    [ chat_id : {-5}, id : {1}, sender_id : {user_id, 2}, action : BOOLEAN,
      sender_bot : BOOLEAN, chat_is_user : BOOLEAN, text_mention : BOOLEAN,
      entity_mention : BOOLEAN, is_reply : BOOLEAN, reply_lookup : ReplyLookups ]

TriggerInit ==
    /\ now = StartTime
    /\ state = DefaultState(StartTime)
    /\ file = NoFile
    /\ flush = Idle
    /\ enq_log = <<>>
    /\ since_act = 0
    /\ \E e \in TriggerEvents : io = [fn |-> "event", args |-> <<e>>, ret |-> <<>>]
    /\ sink = NotificationSink
    /\ disk = NoOtherFiles
    /\ tasks = NoTasks

CallShouldAlert ==
    /\ io.fn = "event"
    /\ io' = [fn |-> "should_alert", args |-> io.args, ret |-> should_alert(io.args[1])]
    /\ UNCHANGED <<now, state, file, flush, enq_log, since_act, sink, disk, tasks>>

TriggerNext == CallShouldAlert

TriggerSpec == TriggerInit /\ [][TriggerNext]_vars

Classified(trigger_type) == [should_alert |-> TRUE, trigger_type |-> trigger_type]
Excluded(e) == e.action \/ e.sender_id = user_id \/ e.sender_bot
Mentions(e) == e.text_mention \/ e.entity_mention
RepliesToUser(e) == e.is_reply /\ e.reply_lookup = "me"

Unresolved(e) == e.is_reply /\ e.reply_lookup \in {"none", "error"}

\* C32: for a reply whose replied-to message cannot be fetched (the lookup
\* raises or yields nothing) should_alert returns a result, the result is not
\* a Reply, and it is an alert only for a one-on-one chat or a mention.
C32_UnresolvedReply ==
    (io.fn = "should_alert" /\ Unresolved(io.args[1]))
    => /\ io.ret \in {NoAlert, Classified("DM"), Classified("Mention")}
       /\ io.ret.should_alert => (io.args[1].chat_is_user \/ Mentions(io.args[1]))

\* A group message that replies to a message that cannot be fetched, and
\* mentions nobody, was classified and does not alert.
C32_Witness ==
    /\ io.fn = "should_alert"
    /\ Unresolved(io.args[1]) /\ io.args[1].reply_lookup = "error"
    /\ ~Excluded(io.args[1]) /\ ~io.args[1].chat_is_user /\ ~Mentions(io.args[1])
    /\ io.ret = NoAlert

----------------------------------------------------------------------------
(* The message pipeline with failing steps: handle_message invocations one    *)
(* after another, each with a step that raises if it is reached, between     *)
(* /snooze and /priority commands.  io holds the last                        *)
(* invocation: the event, what send_alert returns (taken as "ok" when it is  *)
(* not called), the step that failed (only one the invocation reached),      *)
(* whether the snooze was on, and what the invocation did.                   *)

PipelineContacts == {2}

Handle(e, r, fault) ==
    /\ Running
    /\ IF fault = "none"
       THEN handle_message(World, e, "ok", now).calls = <<>> => r = "ok"
       ELSE r = "ok" /\ handle_message_try(World, e, r, now, fault).caught
    /\ LET res == handle_message_try(World, e, r, now, fault)
       IN /\ state' = res.out.w.m
          /\ file' = res.out.w.f
          /\ io' = [ fn   |-> "handle_message",
                     args |-> <<e, r, fault, is_snoozed(World, now).ret>>,
                     ret  |-> [ calls |-> res.out.calls, recorded |-> res.out.recorded,
                                caught |-> res.caught, raised |-> res.raised ] ]
    /\ UNCHANGED <<now, flush, enq_log, since_act, sink, disk, tasks>>

\* /priority add <id> with the handle already resolved
PriorityAdd(contact_id) ==
    StoreCommand(add_priority_contact(World, contact_id, NatStr(contact_id)).w)

\* The duration texts of /snooze here: a window that stays open, one that is
\* over as soon as it is set (the next is_snoozed() call finds it expired),
\* and a text parse_duration rejects.
PipelineDurations == {<<"1", "m">>, <<"0", "m">>, <<"5", "x">>}

PipelineNext ==
    \/ \E e \in Events, r \in SendResults, fault \in Faults : Handle(e, r, fault)
    \/ \E q \in BOOLEAN, d \in PipelineDurations : _handle_snooze(q, d)
    \/ \E mode \in FilterModes : PriorityMode(mode)
    \/ \E c \in PipelineContacts : PriorityAdd(c)

PipelineSpec == Init /\ [][PipelineNext]_vars

Handled == io.fn = "handle_message"
HandledEvent == io.args[1]
HandledResult == io.args[2]
HandledFault == io.args[3]
WasSnoozed == io.args[4]

\* C33: in every state the pipeline reaches, when a step of handle_message
\* raises (the snooze check, the classification, the rendering), the
\* exception does not leave the handler, nothing is sent, the message gets no
\* dedup record, the store is as the snooze check left it, and any next
\* message is handled as it would have been without the failed one.
C33_Isolation ==
    \A e \in Events, r \in SendResults, fault \in Faults \ {"none"} :
        LET res == handle_message_try(World, e, r, now, fault)
        IN (res.caught \/ res.raised)
           => /\ ~res.raised
              /\ res.out.calls = <<>>
              /\ is_processed(res.out.w.m, e.chat_id, e.id)
                 <=> is_processed(state, e.chat_id, e.id)
              /\ res.out.w = IF fault = "is_snoozed" THEN World
                             ELSE is_snoozed(World, now).w
              /\ \A e2 \in Events, r2 \in SendResults :
                    handle_message_try(res.out.w, e2, r2, now, "none")
                    = Returned(handle_message(World, e2, r2, now))

\* The rendering of a qualifying, unprocessed message failed while not
\* snoozed, and the message has no dedup record.
C33_Witness ==
    /\ Handled /\ HandledFault = "format_alert" /\ io.ret.caught
    /\ ~WasSnoozed
    /\ ~is_processed(state, HandledEvent.chat_id, HandledEvent.id)

OutcomeMetrics ==
    {"alerts_sent", "dedup_hits", "priority_filtered", "snooze_dropped", "snooze_queued"}

\* What the invocation does when the given step raises if reached, and
\* whether that step was reached.
Probe(e, r, fault) == handle_message_try(World, e, r, now, fault)
Reaches(e, r, fault) == Probe(e, r, fault).caught

\* C35: while not snoozed, handle_message applies the contact filter, the
\* classification, the dedup check, the rendering and the send in that order
\* and returns at the first that says no.  A message the filter rejects is
\* not classified, is not sent, gets no dedup record and records only
\* priority_filtered next to the received count; a message that does not
\* qualify is neither looked up nor rendered nor sent and records nothing but
\* the received count; a processed message is not rendered and records only
\* dedup_hits; anything else is rendered and sent once.  Snoozed or not, an
\* invocation records at most one of the outcome metrics.
C35_GateOrder ==
    \A e \in Events, r \in SendResults :
        LET res == Probe(e, r, "none").out
            passes == should_process_message(state, e.sender_id, e.chat_id)
            qualifies == should_alert(e).should_alert
            processed == is_processed(state, e.chat_id, e.id)
        IN /\ "messages_received" \in res.recorded
           /\ Cardinality(res.recorded \cap OutcomeMetrics) <= 1
           /\ ~is_snoozed(World, now).ret
              => /\ ~passes
                    => /\ ~Reaches(e, r, "should_alert") /\ ~Reaches(e, r, "format_alert")
                       /\ res.calls = <<>>
                       /\ res.w.m.processed_messages = state.processed_messages
                       /\ res.recorded = {"messages_received", "priority_filtered"}
                 /\ passes => Reaches(e, r, "should_alert")
                 /\ (passes /\ ~qualifies)
                    => /\ ~Reaches(e, r, "format_alert")
                       /\ res.calls = <<>>
                       /\ res.recorded = {"messages_received"}
                 /\ (passes /\ qualifies /\ processed)
                    => /\ ~Reaches(e, r, "format_alert")
                       /\ res.calls = <<>>
                       /\ res.recorded = {"messages_received", "dedup_hits"}
                       /\ "dedup_hits" \notin Probe(e, r, "should_alert").out.recorded
                 /\ (passes /\ qualifies /\ ~processed)
                    => /\ Reaches(e, r, "format_alert")
                       /\ Len(res.calls) = 1
                       /\ res.calls[1].body = format_alert(e, should_alert(e).trigger_type)
                       /\ res.recorded \cap OutcomeMetrics
                          = IF r = "ok" THEN {"alerts_sent"} ELSE {}

\* Not snoozed, a message that qualifies and already has a dedup record was
\* rejected by the contact filter: only priority_filtered was recorded.
C35_Witness ==
    /\ Handled /\ HandledFault = "none" /\ ~WasSnoozed
    /\ should_alert(HandledEvent).should_alert
    /\ is_processed(state, HandledEvent.chat_id, HandledEvent.id)
    /\ ~should_process_message(state, HandledEvent.sender_id, HandledEvent.chat_id)
    /\ io.ret.recorded = {"messages_received", "priority_filtered"}
    /\ io.ret.calls = <<>>

----------------------------------------------------------------------------
(* The bot commands that change the store, with arguments that are accepted  *)
(* and arguments that are rejected, between messages that fill the dedup     *)
(* records and the snooze queue.  io holds the last command, its arguments   *)
(* and its response.                                                         *)

Identifiers == {"@alice", "team", "@ghost"}
PriorityArgs ==
    {<<sub, id>> : sub \in {"add", "remove"}, id \in Identifiers}
    \cup {<<"mode", mode>> : mode \in {"whitelist", "blacklist", "off", "loud"}}
MuteArgs == {<<id>> : id \in Identifiers}
SnoozeArgs ==
    {<<d>> : d \in DurationTexts} \cup {<<QueueFlag, d>> : d \in DurationTexts}
    \cup {<<QueueFlag>>}

\* The messages that arrive between commands: the direct message.
CommandEvents == {e \in Events : e.chat_is_user}

Command(name, args, res) ==
    /\ Running
    /\ state' = res.w.m
    /\ file' = res.w.f
    /\ io' = [fn |-> name, args |-> args, ret |-> res.response]
    /\ UNCHANGED <<now, flush, enq_log, since_act, sink, disk, tasks>>

CommandNext ==
    \/ \E args \in PriorityArgs : Command("/priority", args, _handle_priority(World, args))
    \/ \E args \in MuteArgs : Command("/mute", args, _handle_mute(World, args))
    \/ \E args \in MuteArgs : Command("/unmute", args, _handle_unmute(World, args))
    \/ \E args \in SnoozeArgs : Command("/snooze", args, snooze_command(World, args, now))
    \/ \E e \in CommandEvents : HandleMessage(e, "ok")

CommandSpec == Init /\ [][CommandNext]_vars

Unresolvable == {id \in Identifiers : WithoutAt(id) \notin DOMAIN Directory}
Rejected(res, kind) == res.w = World /\ res.response.kind = kind

\* C34: in every state the commands reach, a /snooze whose duration text
\* parse_duration rejects, and a /priority add, /priority remove, /mute or
\* /unmute whose handle does not resolve, leave the store and the state file
\* exactly as they are and answer with the rejection text.
C34_RejectedInput ==
    /\ \A d \in DurationTexts :
          parse_duration(d) = None
          => /\ Rejected(snooze_command(World, <<d>>, now), "invalid_duration")
             /\ Rejected(snooze_command(World, <<QueueFlag, d>>, now), "invalid_duration")
    /\ \A id \in Unresolvable :
          /\ Rejected(_handle_priority(World, <<"add", id>>), "could_not_resolve")
          /\ Rejected(_handle_priority(World, <<"remove", id>>), "could_not_resolve")
          /\ Rejected(_handle_mute(World, <<id>>), "could_not_resolve")
          /\ Rejected(_handle_unmute(World, <<id>>), "could_not_resolve")

\* With a queue-mode snooze on, an alert queued, a priority contact and a
\* muted contact listed, /mute of a handle that does not resolve was rejected.
C34_Witness ==
    /\ io.fn = "/mute" /\ io.args[1] \in Unresolvable
    /\ io.ret.kind = "could_not_resolve"
    /\ state.snooze_active /\ state.snooze_queue # <<>>
    /\ DOMAIN state.priority_whitelist # {} /\ DOMAIN state.priority_blacklist # {}

----------------------------------------------------------------------------
(* The snooze queue and the other gates of the pipeline (checked on Spec).    *)

\* C37: an alert handle_message appends to the snooze queue, which a flush
\* then hands to send_alert, comes from a message that
\* should_process_message accepts when it is received.
C37_QueuedPassedFilter ==
    \A e \in Events, r \in SendResults :
        handle_message(World, e, r, now).enq # <<>>
        => should_process_message(state, e.sender_id, e.chat_id)

SamePair(a, b) == a.chat_id = b.chat_id /\ a.message_id = b.message_id

\* C38: the snooze queue holds at most one alert for a (chat_id, message_id),
\* and a message whose queued alert a flush has delivered has a dedup record.
C38_QueuedAlertedOnce ==
    /\ \A i, j \in DOMAIN state.snooze_queue :
          SamePair(state.snooze_queue[i], state.snooze_queue[j]) => i = j
    /\ \A k \in DOMAIN flush.results :
          flush.results[k].result = "ok"
          => is_processed(state, flush.results[k].alert.chat_id,
                          flush.results[k].alert.message_id)

----------------------------------------------------------------------------
(* Overlapping handle_message invocations: Telethon runs the handler of each  *)
(* update as its own task, so an invocation that is suspended in an await    *)
(* leaves the event loop to other invocations, to the command handler and to *)
(* the delivery loops.  The clock stands still: no window expires.           *)

Begin(k, e) ==
    /\ tasks.run[k] = NoTask
    /\ Len(tasks.sent) < MaxDeliveries
    /\ LET b == begin(World, e, now)
       IN /\ state' = b.w.m
          /\ file' = b.w.f
          /\ tasks' = [tasks EXCEPT !.run[k] = b.task]
    /\ UNCHANGED <<now, flush, enq_log, since_act, io, sink, disk>>

Resume(k, r) ==
    /\ tasks.run[k] # NoTask
    /\ tasks.run[k].pc # "send_alert" => r = "ok"
    /\ LET res == resume(World, tasks.run[k], r, now)
       IN /\ state' = res.w.m
          /\ file' = res.w.f
          /\ tasks' = [run |-> [tasks.run EXCEPT ![k] = res.task],
                       sent |-> tasks.sent \o res.sent]
    /\ UNCHANGED <<now, flush, enq_log, since_act, io, sink, disk>>

RaceNext ==
    \/ \E k \in TaskIds, e \in Events : Begin(k, e)
    \/ \E k \in TaskIds, r \in SendResults : Resume(k, r)
    \/ \E q \in BOOLEAN, d \in DurationTexts : _handle_snooze(q, d)
    \/ _handle_unsnooze
    \/ \E r \in SendResults : FlushStep(r)

RaceSpec == Init /\ [][RaceNext]_vars

\* C36: whatever the interleaving of handle_message invocations, the direct
\* path makes at most one successful send for a (chat_id, message_id).
C36_OneDeliveryPerPair ==
    \A i, j \in DOMAIN tasks.sent : tasks.sent[i] = tasks.sent[j] => i = j

\* An invocation is between its is_snoozed() check and its queue_alert() call.
AboutToQueue(k) == tasks.run[k].pc \in {"snoozed_should_alert", "snoozed_format_alert"}

\* C39: an alert is never left in the queue of a snooze that is not active
\* when no delivery loop is running and no invocation is on its way to
\* queue_alert.
C39_NoStrandedAlert ==
    ~ /\ ~state.snooze_active
      /\ state.snooze_queue # <<>>
      /\ ~InProgress(flush)
      /\ \A k \in TaskIds : ~AboutToQueue(k)

----------------------------------------------------------------------------
(* One snooze window and one stop of the process during it, under the fair   *)
(* scheduler of FairSpec.  The downtime is a number of clock steps: the      *)
(* process starts again while the window is open or after its end.           *)

\* The state file holds a queue-mode snooze with alerts in its queue.
PersistedQueue ==
    /\ file.kind = "json"
    /\ file.data.snooze.active
    /\ file.data.snooze.behavior = "queue"
    /\ file.data.snooze.queue # <<>>

\* The process stops while the snooze is on and starts again after `downtime`
\* clock steps: load(), then _check_startup_snooze up to its delivery loop.
StopAndStart(downtime) ==
    /\ Running
    /\ io.fn = "none"
    /\ state.snooze_active /\ PersistedQueue
    /\ now + downtime * ClockStep <= MaxNow
    /\ now' = now + downtime * ClockStep
    /\ LET s == _check_startup_snooze([m |-> load(file, now'), f |-> file])
       IN /\ state' = s.w.m
          /\ file' = s.w.f
          /\ flush' = StartLoop("startup", s.queued)
          /\ enq_log' = NextLog(s.w.m.snooze_queue, <<>>)
          /\ since_act' = NextSince(s.w.m.snooze_queue, <<>>, FALSE)
          /\ io' = [fn |-> "load", args |-> <<file.data.snooze.queue>>,
                    ret |-> Some(s.w.m.snooze_active)]
    /\ UNCHANGED <<sink, disk, tasks>>

RecoveryNext ==
    \/ Advance
    \/ \E e \in Events, r \in SendResults : HandleMessage(e, r)
    \/ Tick
    \/ \E r \in SendResults : FlushStep(r)
    \/ \E q \in BOOLEAN, d \in DurationTexts : SnoozeOnce(q, d)
    \/ \E downtime \in 0..MaxTicks : StopAndStart(downtime)

RecoverySpec ==
    /\ Init
    /\ [][RecoveryNext]_vars
    /\ WF_vars(Advance)
    /\ WF_vars(Tick)
    /\ WF_vars(\E r \in SendResults : FlushStep(r))

Restarted == io.fn = "load"

\* C40: after a restart that found a queue-mode snooze with a non-empty queue
\* in the state file, the queue is eventually flushed (emptied, each entry
\* handed to send_alert), whether the window ended during the downtime or is
\* still open at startup.
C40_QueueRecovered == Restarted ~> QueueFlushed

=============================================================================
